---- MODULE Spec2Model ----
(***************************************************************************)
(* Fruit quality analyser: the remote-verdict adapter, the result fusion   *)
(* and the analysis thread that joins them, for the three variants of the  *)
(* program:                                                                *)
(*   "advance"  src/advance_Fruit-Detection.py                             *)
(*   "goodUI"   src/goodUI.py (src/new.py has the same adapter and fusion) *)
(*   "pro"      src/pro_advance_Fruit-Detection.py                         *)
(*                                                                         *)
(* Numbers: percentages and confidences are whole percents.  The weighted  *)
(* badness score of the advance variant (weights 2.5 and 3.5) is kept      *)
(* doubled so that it stays an integer.  Python dicts are functions whose  *)
(* DOMAIN is the set of keys present.  Condition labels are the source's   *)
(* strings split into words, without the leading emoji.                    *)
(***************************************************************************)
EXTENDS Integers, Sequences, FiniteSets, Bags, TLC

\* ------------------------------------------------------------------ bounds
MaxPctIdx == 2
MaxFreshIdx == 5
MaxConfIdx == 4
MaxTextLen == 3

\* ------------------------------------------------------------ Python values
None == [py_none |-> TRUE]

Num(v) == [type |-> "number", val |-> v]

\* a JSON value that is not a number (a string such as "high", or null)
NonNumber == [type |-> "string", val |-> 0]

IsNumber(x) == x.type = "number"

\* a call either returns a value or raises
Return(v) == [raised |-> FALSE, value |-> v]

Raise(e) == [raised |-> TRUE, exception |-> e]

\* dict.get(key, default)
Get(d, k, default) == IF k \in DOMAIN d THEN d[k] ELSE default

\* a test "if gemini_result is not None:" in place of the truth value
Truthy_NotNone(d) == d # None

\* truth value of "if gemini_result:" - None and the empty dict are falsy
Truthy(d) == d # None /\ DOMAIN d # {}

Max(a, b) == IF a >= b THEN a ELSE b

Min(a, b) == IF a <= b THEN a ELSE b

\* round(x, 1) of a whole number is that number
Round1(x) == x

\* Python's "key in condition" on a label kept as its words
Contains(label, key) == \E i \in DOMAIN label : label[i] = key

Variants == {"advance", "goodUI", "pro"}

Categories == {"EXCELLENT", "GOOD", "FAIR", "POOR", "BAD", "INSECT_DAMAGED"}

\* --------------------------------------------------------- condition labels
condition_mapping_advance ==
  [EXCELLENT |-> <<"EXCELLENT", "CONDITION", "-", "PREMIUM", "QUALITY">>,
   GOOD |-> <<"GOOD", "CONDITION", "-", "FRESH", "&", "HEALTHY">>,
   FAIR |-> <<"FAIR", "CONDITION", "-", "MONITOR", "CLOSELY">>,
   POOR |-> <<"POOR", "CONDITION", "-", "USE", "IMMEDIATELY">>,
   BAD |-> <<"BAD", "CONDITION", "-", "DO", "NOT", "CONSUME">>,
   INSECT_DAMAGED |-> <<"INSECT", "DAMAGE", "-", "REMOVE", "FROM", "BATCH">>]

condition_mapping_goodUI ==
  [EXCELLENT |-> <<"EXCELLENT", "CONDITION">>,
   GOOD |-> <<"GOOD", "CONDITION">>,
   FAIR |-> <<"FAIR", "CONDITION">>,
   POOR |-> <<"POOR", "CONDITION">>,
   BAD |-> <<"BAD", "CONDITION", "-", "DISCARD">>,
   INSECT_DAMAGED |-> <<"INSECT", "DAMAGE", "-", "REMOVE">>]

color_mapping_advance ==
  [EXCELLENT |-> "#00ff00", GOOD |-> "#32cd32", FAIR |-> "#ffa500",
   POOR |-> "#ff6347", BAD |-> "#ff0000", INSECT_DAMAGED |-> "#8b0000"]

color_mapping_goodUI ==
  [EXCELLENT |-> "#00ff00", GOOD |-> "#90ee90", FAIR |-> "#ffa500",
   POOR |-> "#ff6347", BAD |-> "#ff0000", INSECT_DAMAGED |-> "#8b0000"]

UnclearLabel_advance == <<"UNCLEAR", "-", "CHECK", "MANUALLY">>

UnclearLabel_goodUI == <<"UNCLEAR">>

UnknownLabel_pro == <<"UNKNOWN", "CONDITION">>

ConflictLabel == <<"CONFLICTING", "RESULTS", "-", "MANUAL", "CHECK", "NEEDED">>

\* map_condition of the pro variant: the advance labels, another default
map_condition(ai_condition) ==
  IF ai_condition \in Categories
    THEN condition_mapping_advance[ai_condition]
    ELSE UnknownLabel_pro

\* ------------------------------------------------- default advice (advance)
DefaultTipKeys == <<"EXCELLENT", "GOOD", "FAIR", "POOR", "BAD", "INSECT">>

default_tips ==
  [EXCELLENT |-> <<"Continue current storage practices",
                   "Maintain stable temperature",
                   "Handle gently to preserve quality",
                   "Keep away from ethylene producers",
                   "Use within optimal timeframe">>,
   GOOD |-> <<"Store in proper conditions",
              "Check daily for changes",
              "Maintain good air circulation",
              "Keep dry to prevent mold",
              "Separate from overripe fruits">>,
   FAIR |-> <<"Improve storage conditions immediately",
              "Increase monitoring frequency",
              "Consider refrigeration if applicable",
              "Remove any damaged portions",
              "Use within 2-3 days maximum">>,
   POOR |-> <<"Use immediately or process",
              "Separate from healthy fruits",
              "Consider cooking or juicing",
              "Check for spread to other fruits",
              "Improve storage for future">>,
   BAD |-> <<"Dispose of properly in compost",
             "Sanitize storage area",
             "Check all nearby fruits",
             "Review storage practices",
             "Purchase fresher produce">>,
   INSECT |-> <<"Inspect all fruits carefully",
                "Use protective coverings",
                "Apply organic deterrents",
                "Clean storage thoroughly",
                "Consider professional pest control">>]

default_actions ==
  [EXCELLENT |-> "Enjoy at your convenience - peak quality",
   GOOD |-> "Consume normally - good for several days",
   FAIR |-> "Use within 2-3 days - quality declining",
   POOR |-> "Use immediately - process if needed",
   BAD |-> "Discard immediately - health risk",
   INSECT |-> "Remove from batch - check others"]

\* the lookup loop without its return: the last matching key wins
FirstKeyIn_LastWins(condition) ==
  IF \E i \in DOMAIN DefaultTipKeys : Contains(condition, DefaultTipKeys[i])
    THEN CHOOSE i \in DOMAIN DefaultTipKeys :
           /\ Contains(condition, DefaultTipKeys[i])
           /\ \A j \in (i + 1)..Len(DefaultTipKeys) :
                ~Contains(condition, DefaultTipKeys[j])
    ELSE 0

\* index of the first table key that occurs in the label, 0 if none does
FirstKeyIn(condition) ==
  IF \E i \in DOMAIN DefaultTipKeys : Contains(condition, DefaultTipKeys[i])
    THEN CHOOSE i \in DOMAIN DefaultTipKeys :
           /\ Contains(condition, DefaultTipKeys[i])
           /\ \A j \in 1..(i - 1) : ~Contains(condition, DefaultTipKeys[j])
    ELSE 0

get_default_prevention_tips(condition) ==
  IF FirstKeyIn(condition) # 0
    THEN default_tips[DefaultTipKeys[FirstKeyIn(condition)]]
    ELSE default_tips["FAIR"]

get_default_action(condition) ==
  IF FirstKeyIn(condition) # 0
    THEN default_actions[DefaultTipKeys[FirstKeyIn(condition)]]
    ELSE "Monitor condition closely"

\* get_default_prevention_tips of new: four entries tested in this order
get_default_prevention_tips_new(condition) ==
  IF Contains(condition, "BAD") \/ Contains(condition, "DISCARD")
    THEN <<"Check fruits daily", "Store in cool, dry place",
           "Remove damaged fruits", "Use proper ventilation">>
  ELSE IF Contains(condition, "INSECT")
    THEN <<"Use mesh covers", "Apply organic repellents",
           "Clean storage area", "Regular inspection">>
  ELSE IF Contains(condition, "FAIR") \/ Contains(condition, "POOR")
    THEN <<"Use within 2-3 days", "Refrigerate if possible",
           "Separate from others", "Monitor daily">>
  ELSE <<"Maintain temperature", "Handle gently", "Rotate stock",
         "Check regularly">>

\* ------------------------------------------------------------ response text
(* A response text is a sequence of tokens: the braces of JSON objects,    *)
(* a code-fence marker, "body" (the well-formed member list of a JSON      *)
(* object, whose value is the response's body) and lower-case prose words. *)
ProseWords == {"moldy", "unsafe", "insect", "excellent", "fresh", "fair", "ripe"}

Tokens == {"{", "}", "fence", "body"} \cup ProseWords

\* str.lower() of the category strings a body can carry
Lower(s) ==
  CASE s = "EXCELLENT" -> "excellent"
    [] s = "GOOD" -> "good"
    [] s = "FAIR" -> "fair"
    [] s = "POOR" -> "poor"
    [] s = "BAD" -> "bad"
    [] s = "INSECT_DAMAGED" -> "insect_damaged"
    [] s = "MODERATE" -> "moderate"
    [] s = "CONFLICTING" -> "conflicting"
    [] OTHER -> s

\* the lower-cased words of a text; a body contributes its category value
\* (its key names and its other values hold no keyword)
TextWords(text, body) ==
  {text[i] : i \in {j \in DOMAIN text : text[j] \in ProseWords}}
    \cup (IF (\E i \in DOMAIN text : text[i] = "body")
             /\ "condition_category" \in DOMAIN body
           THEN {Lower(body["condition_category"])}
           ELSE {})

\* "keyword in text_lower": the keyword is a substring of some word
KeywordIn(keyword, words) ==
  \E w \in words : keyword = w \/ (keyword = "insect" /\ w = "insect_damaged")

AnyKeyword(keywords, words) == \E k \in keywords : KeywordIn(k, words)

\* ------------------------------------------ create_fallback_analysis (advance)
\* the categories iterated from best to worst
FallbackOrder_advance_BestFirst ==
  <<"EXCELLENT", "GOOD", "FAIR", "POOR", "INSECT_DAMAGED", "BAD">>

\* the insertion order of the conditions dict
FallbackOrder_advance == <<"BAD", "INSECT_DAMAGED", "POOR", "FAIR", "GOOD", "EXCELLENT">>

conditions_advance ==
  [BAD |-> {"rotten", "spoiled", "moldy", "decay", "inedible", "toxic", "dangerous"},
   INSECT_DAMAGED |-> {"insect", "bug", "worm", "pest", "holes", "tunnels", "larvae"},
   POOR |-> {"poor", "bad quality", "deteriorating", "declining"},
   FAIR |-> {"fair", "moderate", "acceptable", "okay"},
   GOOD |-> {"good", "fresh", "healthy", "nice"},
   EXCELLENT |-> {"excellent", "perfect", "pristine", "ideal", "premium"}]

actions_advance ==
  [BAD |-> "discard immediately",
   INSECT_DAMAGED |-> "remove from batch",
   POOR |-> "use within 24 hours",
   FAIR |-> "use within 2-3 days",
   GOOD |-> "consume normally",
   EXCELLENT |-> "enjoy at your leisure"]

fallback_tips_advance ==
  [BAD |-> <<"Store fruits in cool, dry place",
             "Check daily for spoilage",
             "Remove bad fruits immediately",
             "Improve air circulation",
             "Use within optimal timeframe">>,
   INSECT_DAMAGED |-> <<"Use protective mesh covers",
                        "Apply organic pest deterrents",
                        "Inspect fruits before storage",
                        "Keep storage area clean",
                        "Use pheromone traps">>,
   default |-> <<"Store at proper temperature",
                 "Handle with care",
                 "Check regularly",
                 "Maintain cleanliness",
                 "Use first-in-first-out rotation">>]

\* the loop over the conditions without its break: the last match wins
FirstMatch_advance_LastWins(words) ==
  IF \E i \in DOMAIN FallbackOrder_advance :
       AnyKeyword(conditions_advance[FallbackOrder_advance[i]], words)
    THEN CHOOSE i \in DOMAIN FallbackOrder_advance :
           /\ AnyKeyword(conditions_advance[FallbackOrder_advance[i]], words)
           /\ \A j \in (i + 1)..Len(FallbackOrder_advance) :
                ~AnyKeyword(conditions_advance[FallbackOrder_advance[j]], words)
    ELSE 0

\* index in FallbackOrder_advance of the first category with a keyword in
\* the text, 0 if no category matches (the loop with its break)
FirstMatch_advance(words) ==
  IF \E i \in DOMAIN FallbackOrder_advance :
       AnyKeyword(conditions_advance[FallbackOrder_advance[i]], words)
    THEN CHOOSE i \in DOMAIN FallbackOrder_advance :
           /\ AnyKeyword(conditions_advance[FallbackOrder_advance[i]], words)
           /\ \A j \in 1..(i - 1) :
                ~AnyKeyword(conditions_advance[FallbackOrder_advance[j]], words)
    ELSE 0

FallbackCondition_advance(words) ==
  IF FirstMatch_advance(words) = 0
    THEN "FAIR"
    ELSE FallbackOrder_advance[FirstMatch_advance(words)]

FallbackConfidence_advance(words) ==
  IF FirstMatch_advance(words) = 0
    THEN 60
    ELSE IF FallbackCondition_advance(words) \in {"FAIR", "POOR"} THEN 70 ELSE 85

create_fallback_analysis_advance(text, body) ==
  LET words == TextWords(text, body)
      condition == FallbackCondition_advance(words)
  IN [fruit_type |-> "unknown fruit",
      condition_category |-> condition,
      confidence_score |-> Num(FallbackConfidence_advance(words)),
      detailed_analysis |-> Append(text, "..."),
      defects_found |-> <<>>,
      ripeness |-> "unknown",
      freshness_score |-> Num(50),
      recommendations |-> <<"Based on visual analysis:", actions_advance[condition]>>,
      key_observations |-> <<"AI analysis incomplete - based on limited data">>,
      safety_assessment |-> IF condition \in {"BAD", "POOR"}
                              THEN "questionable" ELSE "likely safe",
      prevention_tips |-> IF condition \in {"BAD", "INSECT_DAMAGED"}
                            THEN fallback_tips_advance[condition]
                            ELSE fallback_tips_advance["default"],
      storage_advice |-> "Store properly based on fruit type",
      action_required |-> actions_advance[condition]]

\* ------------------------------------- create_fallback_analysis (goodUI, new)
create_fallback_analysis_goodUI(text, body) ==
  LET words == TextWords(text, body)
      branch ==
        IF AnyKeyword({"rotten", "spoiled", "moldy", "severely damaged",
                       "bad condition", "unsafe", "decay"}, words)
          THEN [condition |-> "BAD", confidence |-> 85, action |-> "discard",
                prevention |-> <<"Store in cool, dry place",
                                 "Check fruits regularly",
                                 "Remove damaged fruits immediately">>]
        ELSE IF AnyKeyword({"insect", "holes", "bite marks", "pest damage",
                            "chewed", "puncture"}, words)
          THEN [condition |-> "INSECT_DAMAGED", confidence |-> 80,
                action |-> "remove from batch",
                prevention |-> <<"Use mesh covers", "Regular inspection",
                                 "Natural pest repellents">>]
        ELSE IF AnyKeyword({"excellent", "perfect", "pristine", "optimal"}, words)
          THEN [condition |-> "EXCELLENT", confidence |-> 90,
                action |-> "consume at leisure",
                prevention |-> <<"Continue current storage",
                                 "Maintain temperature">>]
        ELSE IF AnyKeyword({"good condition", "fresh", "healthy", "quality"}, words)
          THEN [condition |-> "GOOD", confidence |-> 85,
                action |-> "consume normally",
                prevention |-> <<"Monitor regularly", "Proper ventilation">>]
        ELSE IF AnyKeyword({"fair", "moderate", "declining", "some defects"}, words)
          THEN [condition |-> "FAIR", confidence |-> 70,
                action |-> "use within days",
                prevention |-> <<"Improve storage conditions", "Use sooner">>]
        ELSE [condition |-> "POOR", confidence |-> 60,
              action |-> "consume immediately",
              prevention |-> <<"Better selection at purchase",
                               "Improved storage">>]
  IN [fruit_type |-> "unknown",
      condition_category |-> branch.condition,
      confidence_score |-> Num(branch.confidence),
      detailed_analysis |-> text,
      defects_found |-> <<>>,
      ripeness |-> "unknown",
      freshness_score |-> Num(branch.confidence),
      recommendations |-> <<"Based on AI analysis">>,
      key_observations |-> <<Append(text, "...")>>,
      safety_assessment |-> "questionable",
      prevention_tips |-> branch.prevention,
      storage_advice |-> "Store properly",
      action_required |-> branch.action]

create_fallback_analysis(variant, text, body) ==
  IF variant = "advance"
    THEN create_fallback_analysis_advance(text, body)
    ELSE create_fallback_analysis_goodUI(text, body)

\* ------------------------------------------------------ parsing the response
EmptyDict == <<>>

Indices(text, tok) == {i \in DOMAIN text : text[i] = tok}

SetMin(S) == CHOOSE x \in S : \A y \in S : x <= y

SetMax(S) == CHOOSE x \in S : \A y \in S : x >= y

\* re.search(r'\{.*\}', text, re.DOTALL) finds a match
HasJsonMatch(text) ==
  \E i \in Indices(text, "{"), j \in Indices(text, "}") : i < j

\* json_match.group(): greedy, from the first "{" to the last "}"
JsonMatchGroup(text) ==
  SubSeq(text, SetMin(Indices(text, "{")), SetMax(Indices(text, "}")))

\* re.sub(r'```json|```', '', json_str)
StripFences(json_str) == SelectSeq(json_str, LAMBDA t : t # "fence")

\* json.loads succeeds: the string is one JSON object
JsonLoadsOk(json_str) == json_str \in {<<"{", "}">>, <<"{", "body", "}">>}

JsonLoads(json_str, body) == IF json_str = <<"{", "}">> THEN EmptyDict ELSE body

\* parse_gemini_response of advance, goodUI and new
parse_gemini_response(variant, text, body) ==
  IF HasJsonMatch(text) /\ JsonLoadsOk(StripFences(JsonMatchGroup(text)))
    THEN JsonLoads(StripFences(JsonMatchGroup(text)), body)
    ELSE create_fallback_analysis(variant, text, body)

\* the parsing inlined in analyze_with_gemini of pro: no fence stripping,
\* no keyword fallback
ParseInline_pro(text, body) ==
  IF HasJsonMatch(text) /\ JsonLoadsOk(JsonMatchGroup(text))
    THEN JsonLoads(JsonMatchGroup(text), body)
    ELSE None

\* outcomes of the one HTTP POST
FailureKinds == {"non_200", "timeout", "connection_error",
                 "no_candidates", "malformed_candidate"}

\* the failures that are exceptions raised inside the try block
ExceptionKinds == {"timeout", "connection_error", "malformed_candidate"}

\* analyze_with_gemini without its except clause
analyze_with_gemini_NoExcept(variant, resp) ==
  IF resp.kind \in ExceptionKinds
    THEN Raise("RequestException")
    ELSE IF resp.kind # "ok"
      THEN Return(None)
      ELSE IF variant = "pro"
        THEN Return(ParseInline_pro(resp.text, resp.body))
        ELSE Return(parse_gemini_response(variant, resp.text, resp.body))

\* analyze_with_gemini: a status other than 200, an answer without
\* candidates and every exception caught by the except clause give None
analyze_with_gemini(variant, resp) ==
  IF resp.kind # "ok"
    THEN Return(None)
    ELSE IF variant = "pro"
      THEN Return(ParseInline_pro(resp.text, resp.body))
      ELSE Return(parse_gemini_response(variant, resp.text, resp.body))

\* ------------------------------------------------------------------- inputs
PctValues == {2 * i : i \in 0..MaxPctIdx} \cup {30}

FreshValues == {100 - 15 * i : i \in 0..MaxFreshIdx} \cup {90}

\* an image is known by the metrics perform_local_analysis computes from it
Images ==
  [brown_rot_percentage : PctValues,
   black_spots_percentage : PctValues,
   freshness_score : FreshValues]

ReferenceImages ==
  {[brown_rot_percentage |-> 0, black_spots_percentage |-> 0, freshness_score |-> 90],
   [brown_rot_percentage |-> 30, black_spots_percentage |-> 0, freshness_score |-> 90]}

\* the six categories and two strings outside them
BodyCategories == Categories \cup {"MODERATE", "CONFLICTING"}

ConfScores ==
  {Num(25 * i) : i \in 0..MaxConfIdx} \cup {Num(0 - 20), Num(150), NonNumber}

Optional(key, values) == {EmptyDict} \cup {key :> v : v \in values}

\* the JSON objects the remote classifier answers with: any category string,
\* any confidence value, each key possibly missing
Bodies ==
  {("fruit_type" :> "apple") @@ c @@ s :
     c \in Optional("condition_category", BodyCategories),
     s \in Optional("confidence_score", ConfScores)}

ReferenceBody ==
  [fruit_type |-> "apple", condition_category |-> "GOOD", confidence_score |-> Num(75)]

Texts == UNION {[1..n -> Tokens] : n \in 0..MaxTextLen}

Failures == {[kind |-> k, text |-> <<>>, body |-> EmptyDict] : k \in FailureKinds}

JsonResponses ==
  {[kind |-> "ok", text |-> <<"{", "body", "}">>, body |-> b] : b \in Bodies}

TextResponses ==
  {[kind |-> "ok", text |-> t,
    body |-> IF Indices(t, "body") # {} THEN ReferenceBody ELSE EmptyDict] :
     t \in Texts}

\* JSON objects that carry advice of their own, each key possibly missing;
\* the prompt of advance asks for "storage_method", the others for
\* "storage_advice"
AdviceBodies ==
  {ReferenceBody @@ t @@ a @@ sa @@ sm :
     t \in Optional("prevention_tips", {<<"Keep in the crisper drawer">>}),
     a \in Optional("action_required", {"eat this week"}),
     sa \in Optional("storage_advice", {"Refrigerate"}),
     sm \in Optional("storage_method", {"Refrigerate at 4 C"})}

AdviceResponses ==
  {[kind |-> "ok", text |-> <<"{", "body", "}">>, body |-> b] : b \in AdviceBodies}

\* every image meets every failure and every JSON answer; the free-form
\* texts and the answers with advice are explored for the reference images
ResponsesFor(image) ==
  Failures \cup JsonResponses
    \cup (IF image \in ReferenceImages
            THEN TextResponses \cup AdviceResponses
            ELSE {})

\* ------------------------------------------------- perform_local_analysis
perform_local_analysis(image) == image

\* ------------------------------------------------------------------ fusion
\* twice the Branch A score brown * 2.5 + black * 3.5 of advance
LocalBadScoreA2_advance(l) ==
  l.brown_rot_percentage * 5 + l.black_spots_percentage * 7

\* the Branch A score brown * 2 + black * 3 of goodUI
LocalBadScoreA_goodUI(l) ==
  l.brown_rot_percentage * 2 + l.black_spots_percentage * 3

\* the Branch B score brown * 3 + black * 4 of every variant
LocalBadScoreB(l) ==
  l.brown_rot_percentage * 3 + l.black_spots_percentage * 4

\* BranchA_advance without the relabelling of the conflict case
BranchA_advance_KeepLabel(ai_condition, ai_confidence, l) ==
  [condition |-> IF ai_condition \in Categories
                   THEN condition_mapping_advance[ai_condition]
                   ELSE UnclearLabel_advance,
   confidence |-> IF LocalBadScoreA2_advance(l) > 2 * 20
                     /\ ai_condition \in {"EXCELLENT", "GOOD"}
                    THEN Max(ai_confidence - 15, 50)
                    ELSE IF LocalBadScoreA2_advance(l) < 2 * 5
                            /\ ai_condition \in {"BAD", "POOR"}
                      THEN Max(ai_confidence - 10, 60)
                      ELSE Min(ai_confidence + 5, 95),
   color |-> IF ai_condition \in Categories
               THEN color_mapping_advance[ai_condition]
               ELSE "#808080"]

\* BranchA_advance with the agreement boost left uncapped
BranchA_advance_NoCap(ai_condition, ai_confidence, l) ==
  IF LocalBadScoreA2_advance(l) > 2 * 20 /\ ai_condition \in {"EXCELLENT", "GOOD"}
    THEN [condition |-> ConflictLabel,
          confidence |-> Max(ai_confidence - 15, 50),
          color |-> "#ff6347"]
  ELSE [condition |-> IF ai_condition \in Categories
                        THEN condition_mapping_advance[ai_condition]
                        ELSE UnclearLabel_advance,
        confidence |-> IF LocalBadScoreA2_advance(l) < 2 * 5
                          /\ ai_condition \in {"BAD", "POOR"}
                         THEN Max(ai_confidence - 10, 60)
                         ELSE ai_confidence + 5,
        color |-> IF ai_condition \in Categories
                    THEN color_mapping_advance[ai_condition]
                    ELSE "#808080"]

\* BranchA_advance with the negative-verdict case taking the conflict penalty
BranchA_advance_SamePenalty(ai_condition, ai_confidence, l) ==
  IF LocalBadScoreA2_advance(l) > 2 * 20 /\ ai_condition \in {"EXCELLENT", "GOOD"}
    THEN [condition |-> ConflictLabel,
          confidence |-> Max(ai_confidence - 15, 50),
          color |-> "#ff6347"]
  ELSE [condition |-> IF ai_condition \in Categories
                        THEN condition_mapping_advance[ai_condition]
                        ELSE UnclearLabel_advance,
        confidence |-> IF LocalBadScoreA2_advance(l) < 2 * 5
                          /\ ai_condition \in {"BAD", "POOR"}
                         THEN Max(ai_confidence - 15, 50)
                         ELSE Min(ai_confidence + 5, 95),
        color |-> IF ai_condition \in Categories
                    THEN color_mapping_advance[ai_condition]
                    ELSE "#808080"]

\* BranchA_advance with the conflict case entered on the local score alone
BranchA_advance_AnyCategory(ai_condition, ai_confidence, l) ==
  IF LocalBadScoreA2_advance(l) > 2 * 20
    THEN [condition |-> ConflictLabel,
          confidence |-> Max(ai_confidence - 15, 50),
          color |-> "#ff6347"]
  ELSE [condition |-> IF ai_condition \in Categories
                        THEN condition_mapping_advance[ai_condition]
                        ELSE UnclearLabel_advance,
        confidence |-> IF LocalBadScoreA2_advance(l) < 2 * 5
                          /\ ai_condition \in {"BAD", "POOR"}
                         THEN Max(ai_confidence - 10, 60)
                         ELSE Min(ai_confidence + 5, 95),
        color |-> IF ai_condition \in Categories
                    THEN color_mapping_advance[ai_condition]
                    ELSE "#808080"]

\* Branch A of combine_analysis_results (advance): condition and confidence
BranchA_advance(ai_condition, ai_confidence, l) ==
  IF LocalBadScoreA2_advance(l) > 2 * 20 /\ ai_condition \in {"EXCELLENT", "GOOD"}
    THEN [condition |-> ConflictLabel,
          confidence |-> Max(ai_confidence - 15, 50),
          color |-> "#ff6347"]
  ELSE [condition |-> IF ai_condition \in Categories
                        THEN condition_mapping_advance[ai_condition]
                        ELSE UnclearLabel_advance,
        confidence |-> IF LocalBadScoreA2_advance(l) < 2 * 5
                          /\ ai_condition \in {"BAD", "POOR"}
                         THEN Max(ai_confidence - 10, 60)
                         ELSE Min(ai_confidence + 5, 95),
        color |-> IF ai_condition \in Categories
                    THEN color_mapping_advance[ai_condition]
                    ELSE "#808080"]

\* BranchB_advance with the label of the GOOD band in the POOR band
BranchB_advance_PoorAsGood(l) ==
  LET local_bad_score == LocalBadScoreB(l)
      freshness == l.freshness_score
  IN IF local_bad_score > 25 \/ freshness < 30
       THEN [condition |-> condition_mapping_advance["BAD"], confidence |-> 75,
             color |-> "#ff0000",
             description |-> <<"Significant decay and quality issues detected.">>]
     ELSE IF local_bad_score > 15 \/ freshness < 50
       THEN [condition |-> condition_mapping_advance["GOOD"], confidence |-> 70,
             color |-> "#ff6347",
             description |-> <<"Quality declining rapidly. Use within 24 hours.">>]
     ELSE IF local_bad_score > 8 \/ freshness < 70
       THEN [condition |-> condition_mapping_advance["FAIR"], confidence |-> 65,
             color |-> "#ffa500",
             description |-> <<"Some quality concerns. Monitor daily.">>]
     ELSE IF freshness > 85 /\ local_bad_score < 3
       THEN [condition |-> condition_mapping_advance["EXCELLENT"], confidence |-> 80,
             color |-> "#00ff00",
             description |-> <<"Outstanding quality fruit.">>]
     ELSE [condition |-> condition_mapping_advance["GOOD"], confidence |-> 75,
           color |-> "#32cd32",
           description |-> <<"Good quality fruit suitable for consumption.">>]

\* BranchB_advance with the POOR band tested before the BAD band
BranchB_advance_PoorFirst(l) ==
  LET local_bad_score == LocalBadScoreB(l)
      freshness == l.freshness_score
  IN IF local_bad_score > 15 \/ freshness < 50
       THEN [condition |-> condition_mapping_advance["POOR"], confidence |-> 70,
             color |-> "#ff6347",
             description |-> <<"Quality declining rapidly. Use within 24 hours.">>]
     ELSE IF local_bad_score > 25 \/ freshness < 30
       THEN [condition |-> condition_mapping_advance["BAD"], confidence |-> 75,
             color |-> "#ff0000",
             description |-> <<"Significant decay and quality issues detected.">>]
     ELSE IF local_bad_score > 8 \/ freshness < 70
       THEN [condition |-> condition_mapping_advance["FAIR"], confidence |-> 65,
             color |-> "#ffa500",
             description |-> <<"Some quality concerns. Monitor daily.">>]
     ELSE IF freshness > 85 /\ local_bad_score < 3
       THEN [condition |-> condition_mapping_advance["EXCELLENT"], confidence |-> 80,
             color |-> "#00ff00",
             description |-> <<"Outstanding quality fruit.">>]
     ELSE [condition |-> condition_mapping_advance["GOOD"], confidence |-> 75,
           color |-> "#32cd32",
           description |-> <<"Good quality fruit suitable for consumption.">>]

\* Branch B of combine_analysis_results (advance): the threshold ladder
BranchB_advance(l) ==
  LET local_bad_score == LocalBadScoreB(l)
      freshness == l.freshness_score
  IN IF local_bad_score > 25 \/ freshness < 30
       THEN [condition |-> condition_mapping_advance["BAD"], confidence |-> 75,
             color |-> "#ff0000",
             description |-> <<"Significant decay and quality issues detected.">>]
     ELSE IF local_bad_score > 15 \/ freshness < 50
       THEN [condition |-> condition_mapping_advance["POOR"], confidence |-> 70,
             color |-> "#ff6347",
             description |-> <<"Quality declining rapidly. Use within 24 hours.">>]
     ELSE IF local_bad_score > 8 \/ freshness < 70
       THEN [condition |-> condition_mapping_advance["FAIR"], confidence |-> 65,
             color |-> "#ffa500",
             description |-> <<"Some quality concerns. Monitor daily.">>]
     ELSE IF freshness > 85 /\ local_bad_score < 3
       THEN [condition |-> condition_mapping_advance["EXCELLENT"], confidence |-> 80,
             color |-> "#00ff00",
             description |-> <<"Outstanding quality fruit.">>]
     ELSE [condition |-> condition_mapping_advance["GOOD"], confidence |-> 75,
           color |-> "#32cd32",
           description |-> <<"Good quality fruit suitable for consumption.">>]

combine_analysis_results_advance(gemini_result, local_analysis) ==
  IF Truthy(gemini_result)
    THEN
      LET ai_condition == Get(gemini_result, "condition_category", "FAIR")
          ai_confidence == Get(gemini_result, "confidence_score", Num(50))
          a == BranchA_advance(ai_condition, ai_confidence.val, local_analysis)
      IN IF ~IsNumber(ai_confidence)
           THEN Raise("TypeError")
           ELSE Return(
             [condition |-> a.condition,
              confidence |-> Num(Round1(a.confidence)),
              description |-> Get(gemini_result, "detailed_analysis",
                                  <<"AI analysis completed">>),
              color |-> a.color,
              local_analysis |-> local_analysis,
              gemini_analysis |-> gemini_result,
              fruit_type |-> Get(gemini_result, "fruit_type", "Unknown"),
              primary_source |-> "AI Expert Analysis",
              prevention_tips |-> Get(gemini_result, "prevention_tips",
                                      get_default_prevention_tips(a.condition)),
              action_required |-> Get(gemini_result, "action_required",
                                      get_default_action(a.condition)),
              storage_advice |-> Get(gemini_result, "storage_method",
                                     "Store in cool, dry place"),
              shelf_life |-> Get(gemini_result, "shelf_life", "Check daily"),
              health_risks |-> Get(gemini_result, "health_risks", <<>>),
              disease_identification |-> Get(gemini_result, "disease_identification",
                                             "None detected")])
    ELSE
      LET b == BranchB_advance(local_analysis)
      IN Return(
           [condition |-> b.condition,
            confidence |-> Num(Round1(b.confidence)),
            description |-> b.description,
            color |-> b.color,
            local_analysis |-> local_analysis,
            gemini_analysis |-> gemini_result,
            fruit_type |-> "Unknown",
            primary_source |-> "Computer Vision Analysis",
            prevention_tips |-> get_default_prevention_tips(b.condition),
            action_required |-> get_default_action(b.condition),
            storage_advice |-> "Store appropriately",
            shelf_life |-> "Monitor condition",
            health_risks |-> <<>>,
            disease_identification |-> "Visual inspection needed"])

\* Branch A of make_final_decision_gemini_priority (goodUI, new)
BranchA_goodUI(ai_condition, ai_confidence, l) ==
  [condition |-> IF ai_condition \in Categories
                   THEN condition_mapping_goodUI[ai_condition]
                   ELSE UnclearLabel_goodUI,
   color |-> IF ai_condition \in Categories
               THEN color_mapping_goodUI[ai_condition]
               ELSE "#808080",
   confidence |-> IF LocalBadScoreA_goodUI(l) > 15
                     /\ ai_condition \in {"EXCELLENT", "GOOD"}
                    THEN Max(ai_confidence - 10, 60)
                    ELSE ai_confidence]

\* Branch B of make_final_decision_gemini_priority (goodUI, new)
BranchB_goodUI(l) ==
  IF LocalBadScoreB(l) > 20
    THEN [condition |-> condition_mapping_goodUI["BAD"], confidence |-> 75,
          color |-> "#ff0000",
          description |-> <<"Local analysis detected significant defects. This fruit should be discarded.">>]
  ELSE IF LocalBadScoreB(l) > 10
    THEN [condition |-> condition_mapping_goodUI["FAIR"], confidence |-> 65,
          color |-> "#ffa500",
          description |-> <<"Local analysis shows some quality issues. Use soon.">>]
  ELSE [condition |-> condition_mapping_goodUI["GOOD"],
        confidence |-> l.freshness_score,
        color |-> "#90ee90",
        description |-> <<"Local analysis shows good quality">>]

make_final_decision_gemini_priority(gemini_result, local_analysis) ==
  IF Truthy(gemini_result)
    THEN
      LET ai_condition == Get(gemini_result, "condition_category", "FAIR")
          ai_confidence == Get(gemini_result, "confidence_score", Num(50))
          a == BranchA_goodUI(ai_condition, ai_confidence.val, local_analysis)
      IN IF ~IsNumber(ai_confidence)
           THEN Raise("TypeError")
           ELSE Return(
             [condition |-> a.condition,
              confidence |-> Num(Round1(a.confidence)),
              description |-> Get(gemini_result, "detailed_analysis",
                                  <<"AI analysis completed">>),
              color |-> a.color,
              local_analysis |-> local_analysis,
              gemini_analysis |-> gemini_result,
              fruit_type |-> Get(gemini_result, "fruit_type", "unknown"),
              primary_source |-> "Advanced AI",
              prevention_tips |-> Get(gemini_result, "prevention_tips", <<>>),
              action_required |-> Get(gemini_result, "action_required", "unknown"),
              storage_advice |-> Get(gemini_result, "storage_advice", "")])
    ELSE
      LET b == BranchB_goodUI(local_analysis)
      IN Return(
           [condition |-> b.condition,
            confidence |-> Num(Round1(b.confidence)),
            description |-> b.description,
            color |-> b.color,
            local_analysis |-> local_analysis,
            gemini_analysis |-> gemini_result,
            fruit_type |-> "unknown",
            primary_source |-> "Local Analysis",
            prevention_tips |-> <<>>,
            action_required |-> "check manually",
            storage_advice |-> ""])

\* create_result_from_local (pro): the ladder of advance, one confidence
create_result_from_local(local_metrics) ==
  LET bad_score == LocalBadScoreB(local_metrics)
      freshness == local_metrics.freshness_score
      band ==
        IF bad_score > 25 \/ freshness < 30
          THEN [condition |-> condition_mapping_advance["BAD"],
                action |-> "Discard immediately", safety |-> "unsafe to eat"]
        ELSE IF bad_score > 15 \/ freshness < 50
          THEN [condition |-> condition_mapping_advance["POOR"],
                action |-> "Use within 24 hours or discard", safety |-> "questionable"]
        ELSE IF bad_score > 8 \/ freshness < 70
          THEN [condition |-> condition_mapping_advance["FAIR"],
                action |-> "Use within 2-3 days", safety |-> "safe if consumed soon"]
        ELSE IF freshness > 85 /\ bad_score < 3
          THEN [condition |-> condition_mapping_advance["EXCELLENT"],
                action |-> "Enjoy at your convenience", safety |-> "safe to eat"]
        ELSE [condition |-> condition_mapping_advance["GOOD"],
              action |-> "Consume normally", safety |-> "safe to eat"]
  IN [condition |-> band.condition,
      confidence |-> Num(70),
      fruit_type |-> "Unknown",
      freshness_score |-> Num(freshness),
      defects |-> <<>>,
      ripeness |-> "unknown",
      safety |-> band.safety,
      action_required |-> band.action,
      prevention_tips |-> <<"Store in cool, dry place", "Check daily",
                            "Use proper ventilation">>,
      storage_advice |-> "Store according to fruit type",
      disease_identification |-> "Visual inspection needed",
      local_metrics |-> local_metrics,
      ai_analysis |-> None]

\* the combination step of perform_fruit_analysis (pro)
perform_fruit_analysis(ai_result, local_metrics) ==
  IF Truthy(ai_result)
    THEN Return(
      [condition |-> map_condition(Get(ai_result, "condition_category", "FAIR")),
       confidence |-> Get(ai_result, "confidence_score", Num(70)),
       fruit_type |-> Get(ai_result, "fruit_type", "Unknown"),
       freshness_score |-> Get(ai_result, "freshness_score",
                               Num(local_metrics.freshness_score)),
       defects |-> Get(ai_result, "defects_found", <<>>),
       ripeness |-> Get(ai_result, "ripeness", "unknown"),
       safety |-> Get(ai_result, "safety_assessment", "questionable"),
       action_required |-> Get(ai_result, "action_required", "Monitor condition"),
       prevention_tips |-> Get(ai_result, "prevention_tips", <<>>),
       storage_advice |-> Get(ai_result, "storage_advice", "Store properly"),
       disease_identification |-> Get(ai_result, "disease_identification",
                                      "None detected"),
       local_metrics |-> local_metrics,
       ai_analysis |-> ai_result])
    ELSE Return(create_result_from_local(local_metrics))

\* the fusion step of each variant
Fuse(variant, gemini_result, local_analysis) ==
  CASE variant = "advance" ->
         combine_analysis_results_advance(gemini_result, local_analysis)
    [] variant = "goodUI" ->
         make_final_decision_gemini_priority(gemini_result, local_analysis)
    [] variant = "pro" ->
         perform_fruit_analysis(gemini_result, local_analysis)

\* the remote verdict a fused result carries (None in Branch B)
RemoteOf(result) ==
  IF "gemini_analysis" \in DOMAIN result
    THEN result.gemini_analysis
    ELSE result.ai_analysis

\* the local metrics a fused result carries
LocalOf(result) ==
  IF "local_analysis" \in DOMAIN result
    THEN result.local_analysis
    ELSE result.local_metrics

\* ------------------------------------------------------------------- state
VARIABLES
  variant,              \* which program runs
  current_image_cv2,    \* the loaded image, None if none
  analyze_btn,          \* state of the analyze button
  analysis_result,      \* the stored result (current_result in pro)
  pc,                   \* position of the analysis thread
  local_results,        \* thread local: the LocalMetrics
  response,             \* thread local: outcome of the HTTP request
  gemini_results,       \* thread local: the remote verdict or None
  final_result,         \* thread local: the fused result
  thread_exception,     \* exception caught by the thread's except clause
  pending,              \* callbacks scheduled with root.after
  error_shown,          \* an "Analysis failed" message is on screen
  callback_exceptions,  \* exceptions raised inside Tk callbacks
  call,                 \* a function called on its own: its name and argument
  returned,             \* what that call returned, None before it returns
  threads,              \* the bag of analyses under way: a thread and the
                        \* callbacks it scheduled with root.after
  stale_published,      \* the result of an analysis was stored or displayed
                        \* after its image had been replaced or cleared
  load_error,           \* the last attempt to load an image failed and
                        \* its error message is on screen
  camera_active,        \* the flag the camera threads poll
  current_frame,        \* the frame a camera thread stored last, None
                        \* while the attribute does not exist
  camera_windows,       \* the camera windows that are open
  sessions,             \* how many camera windows were opened so far
  camera_threads,       \* position of the thread of each camera window
  comparison_images,    \* comparison mode: the image of each slot
  comparison_results,   \* comparison mode: the result of each slot
  compare_btn,          \* comparison mode: state of the compare button
  comparison_report     \* comparison mode: what perform_comparison showed

vars == <<variant, current_image_cv2, analyze_btn, analysis_result, pc,
          local_results, response, gemini_results, final_result,
          thread_exception, pending, error_shown, callback_exceptions,
          call, returned, threads, stale_published, load_error,
          camera_active, current_frame, camera_windows, sessions,
          camera_threads, comparison_images, comparison_results,
          compare_btn, comparison_report>>

\* the variables of a function called on its own
callVars == <<call, returned>>

\* the variables of the camera windows
cameraVars ==
  <<camera_active, current_frame, camera_windows, sessions, camera_threads>>

\* the variables of the comparison mode
compareVars ==
  <<comparison_images, comparison_results, compare_btn, comparison_report>>

\* the two slots of the comparison mode
Slots == {"before", "after"}

\* their values where no camera window is looked at
NoCamera ==
  /\ camera_active = FALSE
  /\ current_frame = None
  /\ camera_windows = {}
  /\ sessions = 0
  /\ camera_threads = <<>>

\* their values where the comparison mode is not looked at
NoCompare ==
  /\ comparison_images = [position \in Slots |-> None]
  /\ comparison_results = [position \in Slots |-> None]
  /\ compare_btn = "disabled"
  /\ comparison_report = None

\* the variables of the window with several analyses, of its camera windows
\* and of its comparison mode
guiVars == <<threads, stale_published, load_error, cameraVars, compareVars>>

\* their values where no such window is looked at
NoGui ==
  /\ threads = EmptyBag
  /\ stale_published = FALSE
  /\ load_error = FALSE
  /\ NoCamera
  /\ NoCompare

threadVars == <<local_results, response, gemini_results, final_result,
                thread_exception>>

Init ==
  /\ variant \in Variants
  /\ current_image_cv2 = None
  /\ analyze_btn = "disabled"
  /\ analysis_result = None
  /\ pc = "idle"
  /\ local_results = None
  /\ response = None
  /\ gemini_results = None
  /\ final_result = None
  /\ thread_exception = "none"
  /\ pending = {}
  /\ error_shown = FALSE
  /\ callback_exceptions = {}
  /\ call = None
  /\ returned = None
  /\ NoGui

\* load_from_file with a readable file, before the analysis is started
load_from_file ==
  /\ pc = "idle"
  /\ \E image \in Images : current_image_cv2' = image
  /\ analyze_btn' = "normal"
  /\ UNCHANGED <<callVars, guiVars>>
  /\ UNCHANGED <<variant, analysis_result, pc, threadVars, pending,
                 error_shown, callback_exceptions>>

\* analyze_image: a click on the enabled button starts the analysis thread
analyze_image ==
  /\ pc = "idle"
  /\ analyze_btn = "normal"
  /\ current_image_cv2 # None
  /\ analyze_btn' = "disabled"
  /\ pc' = "local"
  /\ UNCHANGED <<callVars, guiVars>>
  /\ UNCHANGED <<variant, current_image_cv2, analysis_result, threadVars,
                 pending, error_shown, callback_exceptions>>

\* analysis_thread, stage 1: the local analysis
LocalStage ==
  /\ pc = "local"
  /\ local_results' = perform_local_analysis(current_image_cv2)
  /\ pc' = "remote"
  /\ UNCHANGED <<callVars, guiVars>>
  /\ UNCHANGED <<variant, current_image_cv2, analyze_btn, analysis_result,
                 response, gemini_results, final_result, thread_exception,
                 pending, error_shown, callback_exceptions>>

\* analysis_thread, stage 2: the one request to the remote classifier; an
\* exception leaving analyze_with_gemini would end in the thread's except
\* and finally clauses
RemoteStage ==
  /\ pc = "remote"
  /\ \E resp \in ResponsesFor(current_image_cv2) :
       LET out == analyze_with_gemini(variant, resp)
       IN /\ response' = resp
          /\ IF out.raised
               THEN /\ thread_exception' = out.exception
                    /\ pending' = pending \cup {"show_failure", "enable_button"}
                    /\ pc' = "finished"
                    /\ UNCHANGED gemini_results
               ELSE /\ gemini_results' = out.value
                    /\ pc' = "combine"
                    /\ UNCHANGED <<thread_exception, pending>>
  /\ UNCHANGED <<callVars, guiVars>>
  /\ UNCHANGED <<variant, current_image_cv2, analyze_btn, analysis_result,
                 local_results, final_result, error_shown, callback_exceptions>>

\* analysis_thread, stage 3: fusion, then the try's tail, except and finally
CombineStage ==
  /\ pc = "combine"
  /\ LET out == Fuse(variant, gemini_results, local_results)
     IN IF out.raised
          THEN /\ thread_exception' = out.exception
               /\ pending' = pending \cup {"show_failure", "enable_button"}
               /\ UNCHANGED <<final_result, analysis_result>>
          ELSE /\ final_result' = out.value
               /\ analysis_result' =
                    IF variant = "pro" THEN out.value ELSE analysis_result
               /\ pending' = pending \cup {"display", "enable_button"}
               /\ UNCHANGED thread_exception
  /\ pc' = "finished"
  /\ UNCHANGED <<callVars, guiVars>>
  /\ UNCHANGED <<variant, current_image_cv2, analyze_btn, local_results,
                 response, gemini_results, error_shown, callback_exceptions>>

\* create_defects_section calls .get on result['gemini_analysis']
DisplayRaises ==
  variant = "advance" /\ RemoteOf(final_result) = None

\* the scheduled display_analysis_results(final_result)
DisplayCallback ==
  /\ "display" \in pending
  /\ pending' = pending \ {"display"}
  /\ analysis_result' = IF variant = "pro" THEN analysis_result ELSE final_result
  /\ callback_exceptions' =
       IF DisplayRaises
         THEN callback_exceptions \cup {"AttributeError"}
         ELSE callback_exceptions
  /\ UNCHANGED <<callVars, guiVars>>
  /\ UNCHANGED <<variant, current_image_cv2, analyze_btn, pc, threadVars,
                 error_shown>>

\* the scheduled lambda of the except clause: it reads the variable e, which
\* Python unbinds when the except clause ends
FailureCallback ==
  /\ "show_failure" \in pending
  /\ pending' = pending \ {"show_failure"}
  /\ callback_exceptions' = callback_exceptions \cup {"NameError"}
  /\ UNCHANGED <<callVars, guiVars>>
  /\ UNCHANGED <<variant, current_image_cv2, analyze_btn, analysis_result, pc,
                 threadVars, error_shown>>

\* the scheduled lambda of the finally clause
EnableButtonCallback ==
  /\ "enable_button" \in pending
  /\ pending' = pending \ {"enable_button"}
  /\ analyze_btn' = "normal"
  /\ UNCHANGED <<callVars, guiVars>>
  /\ UNCHANGED <<variant, current_image_cv2, analysis_result, pc, threadVars,
                 error_shown, callback_exceptions>>

Next ==
  \/ load_from_file
  \/ analyze_image
  \/ LocalStage
  \/ RemoteStage
  \/ CombineStage
  \/ DisplayCallback
  \/ FailureCallback
  \/ EnableButtonCallback

Spec == Init /\ [][Next]_vars

\* ------------------------------------------------------------------ claims
\* the remote's raw confidence as the fusion step reads it
RawConfidence == Get(gemini_results, "confidence_score", Num(50))

RawInRange == IsNumber(RawConfidence) /\ RawConfidence.val \in 0..100

\* the remote's category as the fusion step reads it
RemoteCategory == Get(gemini_results, "condition_category", "FAIR")

FusedConfidence == final_result.confidence.val

\* the remote verdict carries this category and this confidence
RemoteSays(category, confidence) ==
  /\ Truthy(gemini_results)
  /\ "condition_category" \in DOMAIN gemini_results
  /\ "confidence_score" \in DOMAIN gemini_results
  /\ gemini_results.condition_category = category
  /\ gemini_results.confidence_score = Num(confidence)

Brown == local_results.brown_rot_percentage

Black == local_results.black_spots_percentage

Freshness == local_results.freshness_score

\* the conflict case of Branch A: the remote says EXCELLENT or GOOD and the
\* local badness score is above the variant's high threshold
ConflictCase ==
  /\ final_result # None
  /\ variant \in {"advance", "goodUI"}
  /\ Truthy(gemini_results)
  /\ RemoteCategory \in {"EXCELLENT", "GOOD"}
  /\ IsNumber(RawConfidence)
  /\ \/ variant = "advance" /\ 5 * Brown + 7 * Black > 40
     \/ variant = "goodUI" /\ 2 * Brown + 3 * Black > 15

\* the negative-verdict case of Branch A (advance only): the remote says BAD
\* or POOR and the local badness score is below the low threshold
NegativeCase ==
  /\ final_result # None
  /\ variant = "advance"
  /\ Truthy(gemini_results)
  /\ RemoteCategory \in {"BAD", "POOR"}
  /\ IsNumber(RawConfidence)
  /\ 5 * Brown + 7 * Black < 10

\* Branch A with neither disagreement case
AgreementCase ==
  /\ final_result # None
  /\ variant \in {"advance", "goodUI"}
  /\ Truthy(gemini_results)
  /\ IsNumber(RawConfidence)
  /\ ~ConflictCase
  /\ ~NegativeCase

C3_Original ==
  (NegativeCase /\ RawInRange) =>
    /\ Contains(final_result.condition, RemoteCategory)
    /\ ~Contains(final_result.condition, "CONFLICTING")
    /\ FusedConfidence <= RawConfidence.val
    /\ RawConfidence.val - FusedConfidence < 15

\* C3 amended: in the negative-verdict case the fused condition is the
\* remote's BAD or POOR condition and the fused confidence is
\* max(raw - 10, 60): a reduction of at most 10 when raw >= 60, and the floor
\* 60, above the raw confidence, when raw < 60
C3_NegativeVerdictRule ==
  NegativeCase =>
    /\ Contains(final_result.condition, RemoteCategory)
    /\ ~Contains(final_result.condition, "CONFLICTING")
    /\ FusedConfidence = Max(RawConfidence.val - 10, 60)
    /\ RawConfidence.val >= 60 =>
         /\ FusedConfidence <= RawConfidence.val
         /\ RawConfidence.val - FusedConfidence <= 10
    /\ RawConfidence.val < 60 => FusedConfidence = 60

C3_Witness ==
  /\ NegativeCase
  /\ Brown = 0
  /\ Black = 0
  /\ RemoteSays("BAD", 75)
  /\ Contains(final_result.condition, "BAD")
  /\ FusedConfidence = 65

\* the remote-absent case in the variants with combine_analysis_results
RemoteAbsentCase ==
  /\ final_result # None
  /\ variant \in {"advance", "goodUI"}
  /\ gemini_results = None

\* C4 as stated: with the remote verdict null the condition is one of the
\* bands BAD, POOR, FAIR, GOOD/EXCELLENT, each band carries one fixed
\* confidence (no image of the same band gets another confidence), and
\* brown_rot=0, black_spots=0, freshness=90 falls in the EXCELLENT/GOOD band
C4_Original ==
  RemoteAbsentCase =>
    /\ \E c \in {"BAD", "POOR", "FAIR", "GOOD", "EXCELLENT"} :
         Contains(final_result.condition, c)
    /\ \A image \in Images :
         LET other == Fuse(variant, None, perform_local_analysis(image)).value
         IN other.condition = final_result.condition
              => other.confidence = final_result.confidence
    /\ (Brown = 0 /\ Black = 0 /\ Freshness = 90) =>
         \/ Contains(final_result.condition, "EXCELLENT")
         \/ Contains(final_result.condition, "GOOD")

\* C4 amended: with the remote verdict null, advance decides by
\* s = 3*brown + 4*black and the freshness f through the ordered bands
\* BAD (s > 25 or f < 30, confidence 75), POOR (s > 15 or f < 50, 70),
\* FAIR (s > 8 or f < 70, 65), EXCELLENT (f > 85 and s < 3, 80), GOOD (75);
\* goodUI decides by s alone through BAD (s > 20, 75), FAIR (s > 10, 65)
\* and GOOD, whose confidence is the freshness score; brown_rot=0,
\* black_spots=0, freshness=90 gives EXCELLENT in advance and GOOD in goodUI
C4_Ladder ==
  RemoteAbsentCase =>
    LET s == 3 * Brown + 4 * Black
        f == Freshness
        band == IF variant = "advance"
                  THEN IF s > 25 \/ f < 30 THEN <<"BAD", 75>>
                       ELSE IF s > 15 \/ f < 50 THEN <<"POOR", 70>>
                       ELSE IF s > 8 \/ f < 70 THEN <<"FAIR", 65>>
                       ELSE IF f > 85 /\ s < 3 THEN <<"EXCELLENT", 80>>
                       ELSE <<"GOOD", 75>>
                  ELSE IF s > 20 THEN <<"BAD", 75>>
                       ELSE IF s > 10 THEN <<"FAIR", 65>>
                       ELSE <<"GOOD", f>>
    IN /\ Contains(final_result.condition, band[1])
       /\ \A c \in Categories \ {band[1]} : ~Contains(final_result.condition, c)
       /\ FusedConfidence = band[2]

C4_Witness ==
  /\ RemoteAbsentCase
  /\ variant = "advance"
  /\ Brown = 0
  /\ Black = 0
  /\ Freshness = 90
  /\ Contains(final_result.condition, "EXCELLENT")
  /\ FusedConfidence = 80

\* the fields of an AnalysisResult
ResultFields ==
  {"condition", "confidence", "fruit_type", "prevention_tips",
   "action_required", "storage_advice"}

\* C5: for every LocalMetrics and every remote verdict the adapter returns,
\* the fusion step does not raise and leaves a fully populated result
C5_FusionTotal ==
  pc = "finished" =>
    /\ thread_exception = "none"
    /\ final_result # None
    /\ ResultFields \subseteq DOMAIN final_result

\* the words by which the program itself recognises a label's category
LabelKeys == {"EXCELLENT", "GOOD", "FAIR", "POOR", "BAD", "INSECT", "CONFLICTING"}

Denoted(label) == {k \in LabelKeys : Contains(label, k)}

\* a verdict synthesized by the keyword fallback
IsKeywordVerdict(verdict) ==
  /\ verdict # None
  /\ "key_observations" \in DOMAIN verdict
  /\ "condition_category" \in DOMAIN verdict

\* CONFLICTING comes from the conflict case of the fusion step only
ConflictOnlyFromFusion ==
  /\ final_result # None /\ Contains(final_result.condition, "CONFLICTING")
       => ConflictCase /\ variant = "advance"
  /\ IsKeywordVerdict(gemini_results)
       => gemini_results.condition_category \in Categories

\* C6 as stated: every fused condition denotes exactly one of the six
\* categories or the CONFLICTING state, whatever category string the remote
\* verdict carries, and CONFLICTING comes from the fusion conflict case only
C6_Original ==
  /\ final_result # None => Cardinality(Denoted(final_result.condition)) = 1
  /\ ConflictOnlyFromFusion

\* C6 amended: every fused condition denotes exactly one of the six
\* categories or the CONFLICTING state, or it is the unclear/unknown label
\* that a remote category string outside the six categories is mapped to;
\* CONFLICTING comes from the fusion conflict case only
C6_ConditionDomain ==
  /\ final_result # None =>
       \/ Cardinality(Denoted(final_result.condition)) = 1
       \/ /\ Truthy(gemini_results)
          /\ RemoteCategory \notin Categories
          /\ final_result.condition \in
               {UnclearLabel_advance, UnclearLabel_goodUI, UnknownLabel_pro}
  /\ final_result # None /\ Truthy(gemini_results) /\ RemoteCategory \notin Categories
       => Denoted(final_result.condition) = {}
  /\ ConflictOnlyFromFusion

C6_Witness ==
  /\ final_result # None
  /\ variant = "advance"
  /\ Truthy(gemini_results)
  /\ RemoteCategory = "CONFLICTING"
  /\ final_result.condition = UnclearLabel_advance

\* C7: the confidence of every fused result is a number in [0,100]
C7_ConfidenceRange ==
  final_result # None =>
    /\ IsNumber(final_result.confidence)
    /\ final_result.confidence.val \in 0..100

\* the remote call failed: a status other than 200, a timeout, a connection
\* error or any other exception
RemoteFailed == response # None /\ response.kind \in FailureKinds

RemoteSucceeded == response # None /\ response.kind = "ok"

\* the text holds no "{" followed by a "}"
NoObjectIn(text) ==
  ~\E i \in DOMAIN text, j \in DOMAIN text : i < j /\ text[i] = "{" /\ text[j] = "}"

\* the text holds one JSON object, possibly empty, and no other brace; prose
\* and fence markers may surround it
OneObjectIn(text) ==
  /\ Cardinality(Indices(text, "{")) = 1
  /\ Cardinality(Indices(text, "}")) = 1
  /\ \E i \in DOMAIN text :
       \/ /\ i + 1 \in DOMAIN text
          /\ text[i] = "{" /\ text[i + 1] = "}"
       \/ /\ i + 2 \in DOMAIN text
          /\ text[i] = "{" /\ text[i + 1] = "body" /\ text[i + 2] = "}"

\* the object of a text with OneObjectIn
ObjectOf(resp) ==
  IF \E i \in DOMAIN resp.text :
       i + 1 \in DOMAIN resp.text /\ resp.text[i] = "{" /\ resp.text[i + 1] = "}"
    THEN EmptyDict
    ELSE resp.body

\* analyze_with_gemini returned to analysis_thread: the thread went on to the
\* fusion step, the only later place where it can record an exception
AdapterReturned ==
  /\ pc \in {"combine", "finished"}
  /\ pc = "combine" => thread_exception = "none"
  /\ thread_exception \in {"none", "TypeError"}

\* C9: whenever the remote call succeeds the adapter returns a
\* non-null verdict and does not raise: the parsed object if the text holds
\* one, a keyword verdict if the text holds none
C9_Original ==
  RemoteSucceeded =>
    /\ gemini_results # None
    /\ AdapterReturned
    /\ OneObjectIn(response.text) => gemini_results = ObjectOf(response)
    /\ NoObjectIn(response.text) => IsKeywordVerdict(gemini_results)

\* the prose word occurs in the response text
HasWord(word) == \E i \in DOMAIN response.text : response.text[i] = word

\* the action strings that tell the user to discard the fruit
DiscardActions == {"discard", "discard immediately"}

FallbackOnProse ==
  /\ RemoteSucceeded
  /\ IsKeywordVerdict(gemini_results)
  /\ Indices(response.text, "body") = {}

\* a BAD keyword of the running variant occurs in the text
HasBadKeyword == HasWord("moldy") \/ (variant = "goodUI" /\ HasWord("unsafe"))

Reverse(text) == [i \in 1..Len(text) |-> text[Len(text) + 1 - i]]

\* the same words in the opposite order are classified alike
PositionIndependent ==
  create_fallback_analysis(variant, Reverse(response.text),
                           response.body).condition_category
    = gemini_results.condition_category

\* C11 as stated: the fallback classifies a text as BAD if a BAD keyword
\* occurs, else INSECT_DAMAGED if an insect keyword occurs, else EXCELLENT if
\* an excellent keyword occurs, wherever the keywords stand in the text
C11_Original ==
  FallbackOnProse =>
    /\ HasBadKeyword => gemini_results.condition_category = "BAD"
    /\ ~HasBadKeyword /\ HasWord("insect")
         => gemini_results.condition_category = "INSECT_DAMAGED"
    /\ ~HasBadKeyword /\ ~HasWord("insect") /\ HasWord("excellent")
         => gemini_results.condition_category = "EXCELLENT"
    /\ PositionIndependent

\* the priority order of goodUI and new, on the words of the texts
KeywordLadder_goodUI ==
  IF HasWord("moldy") \/ HasWord("unsafe") THEN "BAD"
  ELSE IF HasWord("insect") THEN "INSECT_DAMAGED"
  ELSE IF HasWord("excellent") THEN "EXCELLENT"
  ELSE IF HasWord("fresh") THEN "GOOD"
  ELSE IF HasWord("fair") THEN "FAIR"
  ELSE "POOR"

\* the priority order of advance, on the words of the texts
KeywordLadder_advance ==
  IF HasWord("moldy") THEN "BAD"
  ELSE IF HasWord("insect") THEN "INSECT_DAMAGED"
  ELSE IF HasWord("fair") THEN "FAIR"
  ELSE IF HasWord("fresh") THEN "GOOD"
  ELSE IF HasWord("excellent") THEN "EXCELLENT"
  ELSE "FAIR"

\* C11 amended: the first matching category wins in a fixed order that is
\* BAD, INSECT_DAMAGED, EXCELLENT, GOOD, FAIR, else POOR in goodUI and new,
\* and BAD, INSECT_DAMAGED, POOR, FAIR, GOOD, EXCELLENT, else FAIR in
\* advance, wherever the keywords stand in the text
C11_KeywordPriority ==
  FallbackOnProse =>
    /\ variant = "goodUI" => gemini_results.condition_category = KeywordLadder_goodUI
    /\ variant = "advance" => gemini_results.condition_category = KeywordLadder_advance
    /\ PositionIndependent

C11_Witness ==
  /\ FallbackOnProse
  /\ variant = "advance"
  /\ response.text = <<"excellent", "fresh", "fair">>
  /\ gemini_results.condition_category = "FAIR"

\* the remote verdict supplies this key
Supplies(key) == Truthy(gemini_results) /\ key \in DOMAIN gemini_results

\* C12: in every fused result prevention_tips, action_required and
\* storage_advice are the remote verdict's own values when it supplies them,
\* and prevention_tips and action_required otherwise come from the default
\* tables keyed by the fused condition
C12_AdvicePopulation ==
  final_result # None =>
    /\ \A key \in {"prevention_tips", "action_required", "storage_advice"} :
         Supplies(key) => final_result[key] = gemini_results[key]
    /\ ~Supplies("prevention_tips") =>
         final_result.prevention_tips
           = get_default_prevention_tips(final_result.condition)
    /\ ~Supplies("action_required") =>
         final_result.action_required = get_default_action(final_result.condition)

\* ------------------------------------------- the default advice on its own
MaxLabelLen == 2

\* words of condition labels: the table keys, in upper and in lower case,
\* and words that are no key
LabelWords ==
  {"EXCELLENT", "GOOD", "FAIR", "POOR", "BAD", "INSECT", "DISCARD",
   "CONDITION", "CONFLICTING", "bad", "excellent"}

\* the labels the fusion step emits in some variant
FusionLabels ==
  {condition_mapping_advance[c] : c \in Categories}
    \cup {condition_mapping_goodUI[c] : c \in Categories}
    \cup {UnclearLabel_advance, UnclearLabel_goodUI, UnknownLabel_pro, ConflictLabel}

LookupLabels ==
  FusionLabels \cup UNION {[1..n -> LabelWords] : n \in 1..MaxLabelLen}

\* advance has both lookups, new has get_default_prevention_tips
LookupCalls(v) ==
  {[fn |-> f, condition |-> l] :
     f \in IF v = "advance"
             THEN {"get_default_prevention_tips", "get_default_action"}
             ELSE {"get_default_prevention_tips"},
     l \in LookupLabels}

InitLookup ==
  /\ variant \in {"advance", "goodUI"}
  /\ current_image_cv2 = None
  /\ analyze_btn = "disabled"
  /\ analysis_result = None
  /\ pc = "idle"
  /\ local_results = None
  /\ response = None
  /\ gemini_results = None
  /\ final_result = None
  /\ thread_exception = "none"
  /\ pending = {}
  /\ error_shown = FALSE
  /\ callback_exceptions = {}
  /\ call \in LookupCalls(variant)
  /\ returned = None
  /\ NoGui

CallDefaultTips ==
  /\ call # None
  /\ returned = None
  /\ call.fn = "get_default_prevention_tips"
  /\ returned' = Return(IF variant = "advance"
                          THEN get_default_prevention_tips(call.condition)
                          ELSE get_default_prevention_tips_new(call.condition))
  /\ UNCHANGED <<variant, current_image_cv2, analyze_btn, analysis_result, pc,
                 threadVars, pending, error_shown, callback_exceptions, call,
                 guiVars>>

CallDefaultAction ==
  /\ call # None
  /\ returned = None
  /\ call.fn = "get_default_action"
  /\ returned' = Return(get_default_action(call.condition))
  /\ UNCHANGED <<variant, current_image_cv2, analyze_btn, analysis_result, pc,
                 threadVars, pending, error_shown, callback_exceptions, call,
                 guiVars>>

NextLookup ==
  \/ CallDefaultTips
  \/ CallDefaultAction

SpecLookup == InitLookup /\ [][NextLookup]_vars

\* a lookup has returned
Looked == call # None /\ returned # None

\* str.upper() of the label words
Upper(w) ==
  CASE w = "bad" -> "BAD"
    [] w = "excellent" -> "EXCELLENT"
    [] OTHER -> w

\* the first table key that is in the label, "" if none is
FirstKey(label, IsIn(_, _)) ==
  IF IsIn(label, "EXCELLENT") THEN "EXCELLENT"
  ELSE IF IsIn(label, "GOOD") THEN "GOOD"
  ELSE IF IsIn(label, "FAIR") THEN "FAIR"
  ELSE IF IsIn(label, "POOR") THEN "POOR"
  ELSE IF IsIn(label, "BAD") THEN "BAD"
  ELSE IF IsIn(label, "INSECT") THEN "INSECT"
  ELSE ""

ContainsIgnoreCase(label, key) == \E i \in DOMAIN label : Upper(label[i]) = key

\* the entry of a key in the table of the called lookup of advance; the
\* generic entry for ""
EntryOf(key) ==
  IF call.fn = "get_default_prevention_tips"
    THEN IF key = "" THEN default_tips["FAIR"] ELSE default_tips[key]
    ELSE IF key = "" THEN "Monitor condition closely" ELSE default_actions[key]

\* the table key of a category
KeyOfCategory(c) == IF c = "INSECT_DAMAGED" THEN "INSECT" ELSE c

\* the labels of the six categories resolve to their own entries, the
\* conflict and unclear labels to the generic entry
FusionLabelsResolve ==
  /\ \A c \in Categories :
       call.condition \in {condition_mapping_advance[c], condition_mapping_goodUI[c]}
         => returned.value = EntryOf(KeyOfCategory(c))
  /\ call.condition \in {ConflictLabel, UnclearLabel_advance, UnclearLabel_goodUI,
                         UnknownLabel_pro}
       => returned.value = EntryOf("")

MaxAnalyses == 2

\* the images the user loads, captures or downloads
GuiImages == ReferenceImages

\* a JSON answer whose confidence is not a number
TypeErrorBody == ("fruit_type" :> "apple") @@ ("confidence_score" :> NonNumber)

\* outcomes of the request: a failure, a good answer, an ill-typed answer
GuiResponses ==
  {[kind |-> "timeout", text |-> <<>>, body |-> EmptyDict],
   [kind |-> "ok", text |-> <<"{", "body", "}">>, body |-> ReferenceBody],
   [kind |-> "ok", text |-> <<"{", "body", "}">>, body |-> TypeErrorBody]}

\* a thread as threading.Thread(target=analysis_thread).start() leaves it;
\* callbacks are the ones it scheduled, in the order in which they expire;
\* stale records that the image was replaced or cleared meanwhile
NewThread ==
  [pc |-> "local", image |-> None, local_results |-> None,
   gemini_results |-> None, final_result |-> None, exception |-> "none",
   callbacks |-> <<>>, stale |-> FALSE]

\* the analysis threads that have not ended
Running == {th \in BagToSet(threads) : th.pc # "done"}

\* how many there are of them
NumRunning ==
  LET count[S \in SUBSET Running] ==
        IF S = {} THEN 0
        ELSE LET th == CHOOSE x \in S : TRUE
             IN CopiesIn(th, threads) + count[S \ {th}]
  IN count[Running]

\* an analysis whose thread function has returned: its locals are gone, the
\* scheduled callbacks hold final_result only
Ended(th) ==
  IF th.pc = "done"
    THEN [th EXCEPT !.image = None, !.local_results = None,
                    !.gemini_results = None]
    ELSE th

\* one analysis moves from th to th2; an analysis whose thread has ended and
\* whose callbacks have all run is over
Step(th, th2) ==
  (threads (-) SetToBag({th}))
    (+) (IF th2.pc = "done" /\ th2.callbacks = <<>>
           THEN EmptyBag
           ELSE SetToBag({Ended(th2)}))

\* the analyses after the current image was replaced by image or cleared
\* (None): a running thread that has analysed another image works on an
\* image that is gone
MarkStale(image) ==
  BagOfAll(LAMBDA th : IF th.pc \in {"remote", "combine"} /\ th.image # image
                         THEN [th EXCEPT !.stale = TRUE]
                         ELSE th,
           threads)

\* the variables of the single analysis, of the camera windows and of the
\* comparison mode, which this window does not use
singleVars ==
  <<pc, threadVars, pending, error_shown, callback_exceptions, callVars,
    cameraVars, compareVars>>

InitGui ==
  /\ variant \in Variants
  /\ current_image_cv2 = None
  /\ analyze_btn = "disabled"
  /\ analysis_result = None
  /\ pc = "idle"
  /\ local_results = None
  /\ response = None
  /\ gemini_results = None
  /\ final_result = None
  /\ thread_exception = "none"
  /\ pending = {}
  /\ error_shown = FALSE
  /\ callback_exceptions = {}
  /\ call = None
  /\ returned = None
  /\ NoGui

\* load_from_file (advance, pro), load_from_url and the camera's
\* capture_image with a readable image
GuiLoadImage ==
  /\ \E image \in GuiImages :
       /\ current_image_cv2' = image
       /\ threads' = MarkStale(image)
  /\ analyze_btn' = "normal"
  /\ load_error' = FALSE
  /\ UNCHANGED <<variant, analysis_result, stale_published, singleVars>>

\* load_from_file and load_from_url with a file that is no image
GuiLoadUnreadable ==
  /\ ~load_error
  /\ load_error' = TRUE
  /\ UNCHANGED <<variant, current_image_cv2, analyze_btn, analysis_result,
                 threads, stale_published, singleVars>>

\* clear_image, which goodUI does not have
GuiClearImage ==
  /\ variant \in {"advance", "pro"}
  /\ current_image_cv2' = None
  /\ analysis_result' = None
  /\ analyze_btn' = "disabled"
  /\ threads' = MarkStale(None)
  /\ UNCHANGED <<variant, stale_published, load_error,
                 singleVars>>

\* analyze_image / analyze_current_image: a click on the enabled button
GuiAnalyze ==
  /\ analyze_btn = "normal"
  /\ current_image_cv2 # None
  /\ BagCardinality(threads) < MaxAnalyses
  /\ analyze_btn' = "disabled"
  /\ threads' = threads (+) SetToBag({NewThread})
  /\ UNCHANGED <<variant, current_image_cv2, analysis_result,
                 stale_published, load_error, singleVars>>

\* the except and finally clauses of analysis_thread: both callbacks are
\* scheduled with one delay, so they expire as they were scheduled
FailureCallbacks == <<"show_failure", "enable_button">>

\* the try's tail and the finally clause: advance (after 500 and 100 ms) and
\* pro (after 500 and 0 ms) enable the button before they display, goodUI
\* (100 and 100 ms) displays first
SuccessCallbacks ==
  IF variant = "goodUI"
    THEN <<"display", "enable_button">>
    ELSE <<"enable_button", "display">>

\* the callback of an analysis that expires next
NextCallback(th) == IF th.callbacks = <<>> THEN "none" ELSE Head(th.callbacks)

\* the analysis after that callback has run
Popped(th) == [th EXCEPT !.callbacks = Tail(th.callbacks)]

\* a thread that shows what stage 1 found before the remote call and the
\* fusion
ThreadLocalStage_PublishEarly(th) ==
  /\ th.pc = "local"
  /\ current_image_cv2 # None
  /\ threads' = Step(th, [th EXCEPT
                            !.pc = "remote",
                            !.image = current_image_cv2,
                            !.local_results =
                               perform_local_analysis(current_image_cv2)])
  /\ analysis_result' = perform_local_analysis(current_image_cv2)
  /\ UNCHANGED <<variant, current_image_cv2, analyze_btn, stale_published,
                 load_error, singleVars>>

\* stage 1 reads self.current_image_cv2; cv2.cvtColor raises on None
ThreadLocalStage(th) ==
  /\ th.pc = "local"
  /\ threads' =
       Step(th, IF current_image_cv2 = None
                  THEN [th EXCEPT !.pc = "done",
                                  !.exception = "cv2.error",
                                  !.callbacks = FailureCallbacks]
                  ELSE [th EXCEPT
                          !.pc = "remote",
                          !.image = current_image_cv2,
                          !.local_results =
                             perform_local_analysis(current_image_cv2)])
  /\ UNCHANGED <<variant, current_image_cv2, analyze_btn, analysis_result,
                 stale_published, load_error,
                 singleVars>>

\* the image stage 2 sends: advance and goodUI read self.current_image_cv2
\* again, pro passes on the argument of perform_fruit_analysis
ImageToSend(th) ==
  IF variant = "pro" THEN th.image ELSE current_image_cv2

\* stage 2: encode_image_base64 raises on None inside the try of
\* analyze_with_gemini, which then returns None
ThreadRemoteStage(th) ==
  /\ th.pc = "remote"
  /\ \E resp \in GuiResponses :
       threads' =
         Step(th, [th EXCEPT
                     !.pc = "combine",
                     !.gemini_results =
                        IF ImageToSend(th) = None
                          THEN None
                          ELSE analyze_with_gemini(variant, resp).value])
  /\ UNCHANGED <<variant, current_image_cv2, analyze_btn, analysis_result,
                 stale_published, load_error,
                 singleVars>>

\* stage 3: the fusion; pro then stores current_result in the thread and
\* copies self.current_image_cv2 into the history, which raises on None
ThreadCombineStage(th) ==
  /\ th.pc = "combine"
  /\ LET out == Fuse(variant, th.gemini_results, th.local_results)
     IN IF out.raised
          THEN /\ threads' = Step(th, [th EXCEPT !.pc = "done",
                                                 !.exception = out.exception,
                                                 !.callbacks = FailureCallbacks])
               /\ UNCHANGED <<analysis_result, stale_published>>
          ELSE IF variant = "pro"
            THEN /\ analysis_result' = out.value
                 /\ stale_published' = (stale_published \/ th.stale)
                 /\ threads' =
                      Step(th, [th EXCEPT
                                  !.pc = "done",
                                  !.final_result = out.value,
                                  !.exception =
                                     IF current_image_cv2 = None
                                       THEN "AttributeError" ELSE "none",
                                  !.callbacks =
                                     IF current_image_cv2 = None
                                       THEN FailureCallbacks
                                       ELSE SuccessCallbacks])
            ELSE /\ threads' = Step(th, [th EXCEPT !.pc = "done",
                                                   !.final_result = out.value,
                                                   !.callbacks = SuccessCallbacks])
                 /\ UNCHANGED <<analysis_result, stale_published>>
  /\ UNCHANGED <<variant, current_image_cv2, analyze_btn, load_error, singleVars>>

\* the scheduled display_analysis_results(final_result): advance and goodUI
\* store the result here, before the panels are filled
GuiDisplayCallback(th) ==
  /\ NextCallback(th) = "display"
  /\ threads' = Step(th, Popped(th))
  /\ analysis_result' =
       IF variant = "pro" THEN analysis_result ELSE th.final_result
  /\ stale_published' = (stale_published \/ th.stale)
  /\ UNCHANGED <<variant, current_image_cv2, analyze_btn, load_error, singleVars>>

\* the scheduled lambda of the except clause: it reads the unbound e, raises
\* NameError and shows nothing
GuiFailureCallback(th) ==
  /\ NextCallback(th) = "show_failure"
  /\ threads' = Step(th, Popped(th))
  /\ UNCHANGED <<variant, current_image_cv2, analyze_btn, analysis_result,
                 stale_published, load_error, singleVars>>

\* the scheduled lambda of the finally clause
GuiEnableButtonCallback(th) ==
  /\ NextCallback(th) = "enable_button"
  /\ threads' = Step(th, Popped(th))
  /\ analyze_btn' = "normal"
  /\ UNCHANGED <<variant, current_image_cv2, analysis_result,
                 stale_published, load_error,
                 singleVars>>

NextGui ==
  \/ GuiLoadImage
  \/ GuiLoadUnreadable
  \/ GuiClearImage
  \/ GuiAnalyze
  \/ \E th \in BagToSet(threads) : ThreadLocalStage(th)
  \/ \E th \in BagToSet(threads) : ThreadRemoteStage(th)
  \/ \E th \in BagToSet(threads) : ThreadCombineStage(th)
  \/ \E th \in BagToSet(threads) : GuiDisplayCallback(th)
  \/ \E th \in BagToSet(threads) : GuiFailureCallback(th)
  \/ \E th \in BagToSet(threads) : GuiEnableButtonCallback(th)

SpecGui == InitGui /\ [][NextGui]_vars

\* C14: under any interleaving of loads, captures, clears, clicks on
\* analyze and thread steps, at most one analysis thread is running
C14_AtMostOneInFlight == NumRunning <= 1

\* C15: the result of an analysis whose image was replaced or cleared while
\* its thread was running is never stored as the current result nor displayed
C15_StaleDiscarded == ~stale_published

\* the fusion of an analysis has all its inputs: the local metrics are there
\* and the thread is past the remote call
JoinedBeforeFusion ==
  \A th \in BagToSet(threads) :
    /\ th.pc = "combine" => th.local_results # None /\ th.image # None
    /\ th.pc \in {"local", "remote"} => th.final_result = None
    /\ th.pc = "local" => th.local_results = None /\ th.gemini_results = None
    /\ th.final_result # None =>
         th.pc = "done" /\ ResultFields \subseteq DOMAIN th.final_result
    /\ (\E i \in DOMAIN th.callbacks : th.callbacks[i] = "display") =>
         th.final_result # None

\* result is what the fusion of th returns, in the step that stores it
IsFusionOf(th, result) ==
  IF variant = "pro"
    THEN /\ th.pc = "combine"
         /\ ~Fuse(variant, th.gemini_results, th.local_results).raised
         /\ result = Fuse(variant, th.gemini_results, th.local_results).value
    ELSE /\ th.pc = "done"
         /\ NextCallback(th) = "display"
         /\ result = th.final_result

\* a step that writes the current result writes the finished fusion of one
\* analysis, or clears it
PublishedAfterFusion ==
  analysis_result' # analysis_result /\ analysis_result' # None =>
    \E th \in BagToSet(threads) : IsFusionOf(th, analysis_result')

\* C16: the fusion of an analysis starts only after its local metrics are
\* there and its remote call has resolved, and the current result is only
\* ever written with the complete result of a finished fusion
C16_JoinBeforePublish ==
  /\ []JoinedBeforeFusion
  /\ [](analysis_result # None => ResultFields \subseteq DOMAIN analysis_result)
  /\ [][PublishedAfterFusion]_vars

\* a complete result is the current result while another analysis has its
\* local metrics and still waits for the remote call
C16_Witness ==
  /\ analysis_result # None
  /\ RemoteOf(analysis_result) # None
  /\ \E th \in BagToSet(threads) : th.pc = "remote" /\ th.local_results # None

\* ------------------------------------ the local metrics, pixel by pixel
\* The metrics are kept in hundredths, as round(x, 2) leaves them. Linear
\* filters over the gray image are computed; what cv2 returns from its
\* masks, contours and edge detector is an input within the range the
\* primitive can return.

\* the largest side of an image
MaxSide == 2

\* black and white pixels, for which gray, V and L all equal the pixel
GrayLevels == {0, 255}

GrayImages ==
  UNION {[h : {h}, w : {w}, px : [(1..h) \X (1..w) -> GrayLevels]] :
           h \in 1..MaxSide, w \in 1..MaxSide}

\* what the cv2 primitives measure on the image besides the gray levels:
\* mask pixel counts as a share of all pixels, the mean of L and of S, the
\* summed channel deviations, the Canny edge density in percent, and the
\* contours found, each by its circularity in hundredths of a percent
Scenes ==
  [brown_share : {0, 1}, black_share : {0, 1},
   brightness : {51, 255}, saturation : {0, 255},
   color_vibrancy : {0, 200}, edge_density : {0, 100},
   contours : {<<>>, <<0>>, <<7854>>}]

Abs(x) == IF x < 0 THEN 0 - x ELSE x

\* num / den rounded to a whole number of hundredths, halves up; num is in
\* hundredths already
Round2(num, den) == (2 * num + den) \div (2 * den)

\* the largest r with r * r <= x
Isqrt(x) ==
  LET between[lo \in 0..46340, hi \in 0..46340] ==
        IF lo >= hi THEN lo
        ELSE LET mid == (lo + hi + 1) \div 2
             IN IF mid * mid <= x THEN between[mid, hi] ELSE between[lo, mid - 1]
  IN between[0, 46340]

\* cv2.BORDER_REFLECT_101, the border of filter2D, Laplacian and Sobel
Reflect101(i, n) ==
  IF n = 1 THEN 1
  ELSE IF i < 1 THEN 2 - i
  ELSE IF i > n THEN 2 * n - i
  ELSE i

Positions(image) == (1..image.h) \X (1..image.w)

NumPixels(image) == image.h * image.w

\* the sum of f over the pixels of the image
SumOver(image, f(_)) ==
  LET sum[S \in SUBSET Positions(image)] ==
        IF S = {} THEN 0
        ELSE LET p == CHOOSE x \in S : TRUE
             IN f(p) + sum[S \ {p}]
  IN sum[Positions(image)]

\* the response of a 3x3 kernel at pixel p
Filter(image, kernel, p) ==
  LET at(dr, dc) ==
        image.px[<<Reflect101(p[1] + dr, image.h), Reflect101(p[2] + dc, image.w)>>]
      term(dr, dc) == kernel[dr + 2][dc + 2] * at(dr, dc)
  IN term(0 - 1, 0 - 1) + term(0 - 1, 0) + term(0 - 1, 1)
     + term(0, 0 - 1) + term(0, 0) + term(0, 1)
     + term(1, 0 - 1) + term(1, 0) + term(1, 1)

\* np.array([[-1,-1,-1],[-1,8,-1],[-1,-1,-1]])
TextureKernel == <<<<0 - 1, 0 - 1, 0 - 1>>, <<0 - 1, 8, 0 - 1>>, <<0 - 1, 0 - 1, 0 - 1>>>>

\* cv2.Laplacian with its default aperture
LaplacianKernel == <<<<0, 1, 0>>, <<1, 0 - 4, 1>>, <<0, 1, 0>>>>

\* cv2.Sobel(gray, cv2.CV_32F, 1, 0, ksize=3) and (..., 0, 1, ksize=3)
SobelXKernel == <<<<0 - 1, 0, 1>>, <<0 - 2, 0, 2>>, <<0 - 1, 0, 1>>>>

SobelYKernel == <<<<0 - 1, 0 - 2, 0 - 1>>, <<0, 0, 0>>, <<1, 2, 1>>>>

\* np.mean(np.abs(cv2.filter2D(gray, cv2.CV_32F, kernel))) times the number
\* of pixels
SumAbsResponse(image) ==
  LET resp(p) == Abs(Filter(image, TextureKernel, p))
  IN SumOver(image, resp)

\* laplacian.var() as a fraction num / den
LaplacianVarNum(image) ==
  LET lap(p) == Filter(image, LaplacianKernel, p)
      sq(p) == lap(p) * lap(p)
      total == SumOver(image, lap)
  IN NumPixels(image) * SumOver(image, sq) - total * total

LaplacianVarDen(image) == NumPixels(image) * NumPixels(image)

\* np.mean(np.sqrt(grad_x**2 + grad_y**2)) in hundredths, each magnitude cut
\* to one decimal
MeanMagnitude(image) ==
  LET mag(p) ==
        LET gx == Filter(image, SobelXKernel, p)
            gy == Filter(image, SobelYKernel, p)
        IN 10 * Isqrt(100 * (gx * gx + gy * gy))
  IN SumOver(image, mag) \div NumPixels(image)

\* analyze_texture_quality
analyze_texture_quality(v, image) ==
  LET n == NumPixels(image)
      num == LaplacianVarNum(image)
      den == LaplacianVarDen(image)
      lbp == Round2(100 * SumAbsResponse(image), n)
  IN CASE v = "goodUI" -> lbp
       [] v = "pro" ->
            IF num >= 100 * den THEN 10000 ELSE Round2(100 * num, den)
       [] v = "advance" ->
            \* 0.3 of a variance of 400 alone is more than 100
            IF num >= 400 * den THEN 10000
            ELSE Min(10000, (30 * Round2(100 * num, den)
                               + 30 * MeanMagnitude(image) + 40 * lbp) \div 100)

\* detect_brown_rot, detect_black_spots and their enhanced forms:
\* round((pixels / total_pixels) * 100, 2)
MaskPercentage(share) == Round2(100 * 100 * share, 1)

\* analyze_fruit_shape: advance weighs circularity and convexity, both at
\* most 1, and caps at 100; goodUI caps the circularity; pro does not cap
analyze_fruit_shape(v, scene) ==
  IF scene.contours = <<>> THEN 5000
  ELSE IF v = "pro" THEN scene.contours[1]
  ELSE Min(10000, scene.contours[1])

\* calculate_freshness_score and calculate_freshness_score_enhanced
calculate_freshness_score(v, scene) ==
  CASE v = "goodUI" ->
         LET brightness_score == Min(10000, (scene.brightness * 10000) \div 255)
             saturation_score == Min(10000, (scene.saturation * 10000) \div 255)
         IN Round2(brightness_score + saturation_score, 2)
    [] v = "pro" ->
         LET brightness_score == (scene.brightness * 10000) \div 255
             saturation_score == (scene.saturation * 10000) \div 255
         IN Min(Round2(4 * brightness_score + 6 * saturation_score, 10), 10000)
    [] v = "advance" ->
         LET brightness_score == Min(10000, (scene.brightness * 12000) \div 255)
             saturation_score == Min(10000, (scene.saturation * 11000) \div 255)
             vibrancy_score == Min(10000, scene.color_vibrancy * 70)
             sharpness_score == Min(10000, scene.edge_density * 1000)
         IN Round2(25 * brightness_score + 35 * saturation_score
                     + 25 * vibrancy_score + 15 * sharpness_score, 100)

\* the five metrics of perform_local_analysis the fusion and the panels read
LocalMetrics(v, image, scene) ==
  [brown_rot_percentage |-> MaskPercentage(scene.brown_share),
   black_spots_percentage |-> MaskPercentage(scene.black_share),
   texture_score |-> analyze_texture_quality(v, image),
   shape_integrity |-> analyze_fruit_shape(v, scene),
   freshness_score |-> calculate_freshness_score(v, scene)]

LocalCalls ==
  [op : {"perform_local_analysis"}, image : GrayImages, scene : Scenes]

InitLocal ==
  /\ variant \in Variants
  /\ current_image_cv2 = None
  /\ analyze_btn = "disabled"
  /\ analysis_result = None
  /\ pc = "idle"
  /\ local_results = None
  /\ response = None
  /\ gemini_results = None
  /\ final_result = None
  /\ thread_exception = "none"
  /\ pending = {}
  /\ error_shown = FALSE
  /\ callback_exceptions = {}
  /\ call \in LocalCalls
  /\ returned = None
  /\ NoGui

CallPerformLocalAnalysis ==
  /\ returned = None
  /\ returned' = Return(LocalMetrics(variant, call.image, call.scene))
  /\ UNCHANGED <<variant, current_image_cv2, analyze_btn, analysis_result, pc,
                 threadVars, pending, error_shown, callback_exceptions, call,
                 guiVars>>

NextLocal == CallPerformLocalAnalysis

SpecLocal == InitLocal /\ [][NextLocal]_vars

\* C17: for every non-empty image perform_local_analysis returns
\* brown_rot_percentage, black_spots_percentage, texture_score,
\* shape_integrity and freshness_score within [0, 100]
C17_LocalMetricRanges ==
  returned # None /\ call.op = "perform_local_analysis" =>
    \A key \in DOMAIN returned.value : returned.value[key] \in 0..10000

\* ------------------------------------------------------- the JSON export
\* advance has export_data, pro has export_json_data; goodUI only saves a
\* report image
ExportVariants == {"advance", "pro"}

\* the results a window can hold: the fusion of every image with every
\* failure and every JSON answer
FusedResults(v) ==
  {Fuse(v, analyze_with_gemini(v, resp).value, perform_local_analysis(image)).value :
     <<resp, image>> \in
       {x \in (Failures \cup JsonResponses) \X Images :
          ~Fuse(v, analyze_with_gemini(v, x[1]).value,
                perform_local_analysis(x[2])).raised}}

ExportCalls(v) == [op : {"export"}, result : FusedResults(v)]

\* export_data of advance: the whole result goes under 'analysis_result';
\* gemini_analysis.pop('image', None) raises on the None of Branch B and
\* removes nothing otherwise, as no verdict has an 'image' key
export_data(result) ==
  IF "gemini_analysis" \in DOMAIN result /\ result.gemini_analysis = None
    THEN Raise("AttributeError")
    ELSE Return([timestamp |-> "now",
                 analysis_result |-> result,
                 metadata |-> [analyzer_version |-> "2.0",
                               api_used |-> "Gemini AI"]])

\* export_json_data of pro, both file dialogs answered with a file name
export_json_data(result) ==
  Return([fruit_type |-> result.fruit_type,
          condition |-> result.condition,
          metrics |-> result.local_metrics,
          timestamp |-> "now"])

\* json.dump followed by json.load: every value of a result is a str, a
\* number, a list, a dict or None, which JSON writes and reads back as they
\* are; what the file holds is what the export put into it
ReadBack(file) ==
  IF "analysis_result" \in DOMAIN file
    THEN file.analysis_result
    ELSE [fruit_type |-> file.fruit_type,
          condition |-> file.condition,
          local_metrics |-> file.metrics]

InitExport ==
  /\ variant \in ExportVariants
  /\ current_image_cv2 = None
  /\ analyze_btn = "disabled"
  /\ analysis_result = None
  /\ pc = "idle"
  /\ local_results = None
  /\ response = None
  /\ gemini_results = None
  /\ final_result = None
  /\ thread_exception = "none"
  /\ pending = {}
  /\ error_shown = FALSE
  /\ callback_exceptions = {}
  /\ call \in ExportCalls(variant)
  /\ returned = None
  /\ NoGui

\* the export of the current result
CallExport ==
  /\ call.op = "export"
  /\ returned = None
  /\ returned' = IF variant = "pro" THEN export_json_data(call.result)
                                    ELSE export_data(call.result)
  /\ UNCHANGED <<variant, current_image_cv2, analyze_btn, analysis_result, pc,
                 threadVars, pending, error_shown, callback_exceptions, call,
                 guiVars>>

\* the file is read back
CallReadBack ==
  /\ call.op = "export"
  /\ returned # None
  /\ ~returned.raised
  /\ call' = [call EXCEPT !.op = "read back"]
  /\ returned' = Return(ReadBack(returned.value))
  /\ UNCHANGED <<variant, current_image_cv2, analyze_btn, analysis_result, pc,
                 threadVars, pending, error_shown, callback_exceptions,
                 guiVars>>

NextExport ==
  \/ CallExport
  \/ CallReadBack

SpecExport == InitExport /\ [][NextExport]_vars

\* C18: the export of the current result writes a file, and reading the
\* file back yields every field of the result unchanged (a result has no
\* image data among its fields here)
C18_ExportRoundTrip ==
  returned # None =>
    /\ ~returned.raised
    /\ call.op = "read back" =>
         \A key \in DOMAIN call.result :
           /\ key \in DOMAIN returned.value
           /\ returned.value[key] = call.result[key]

\* an analysis fails only when there is no image to analyse; every other
\* failure inside it ends in a result
OnlyInvalidImageFails ==
  \A th \in BagToSet(threads) :
    /\ th.exception \in {"none", "cv2.error"}
    /\ th.pc = "done" /\ th.exception = "none" => th.final_result # None

\* a load that fails shows an error and leaves the current image and the
\* current result as they were
FailedLoadChangesNothing ==
  load_error' /\ ~load_error =>
    UNCHANGED <<current_image_cv2, analysis_result, analyze_btn>>

\* C19: an unreadable or empty input is the only failure that reaches the
\* user, and it leaves the current image and result unchanged; every other
\* failure inside an analysis is absorbed into a degraded result
C19_OnlyInvalidImageSurfaces ==
  /\ []OnlyInvalidImageFails
  /\ [][FailedLoadChangesNothing]_vars

\* the braces opened and not yet closed after the tokens i..j of the text
Depth(text, i, j) ==
  Cardinality({k \in i..j : text[k] = "{"})
    - Cardinality({k \in i..j : text[k] = "}"})

\* where the span that opens at the first "{" closes
BalancedEnds(text) ==
  {j \in DOMAIN text :
     /\ Indices(text, "{") # {}
     /\ j > SetMin(Indices(text, "{"))
     /\ Depth(text, SetMin(Indices(text, "{")), j) = 0}

\* the first balanced {...} span of the text
FirstBalancedSpan(text) ==
  SubSeq(text, SetMin(Indices(text, "{")), SetMin(BalancedEnds(text)))

\* the text is prose, fence markers and braces around a valid JSON object
\* that opens at its first "{"
WrapsJsonObject(text) ==
  /\ BalancedEnds(text) # {}
  /\ JsonLoadsOk(StripFences(FirstBalancedSpan(text)))

\* C20: for every response text that wraps a valid JSON object, further
\* braces or a second object after it included, the adapter returns the
\* first balanced {...} span, fence markers stripped, parsed as the verdict
C20_FirstBalancedSpan ==
  RemoteSucceeded /\ WrapsJsonObject(response.text) =>
    gemini_results =
      JsonLoads(StripFences(FirstBalancedSpan(response.text)), response.body)

\* the single analysis has a fused result
Fused == pc = "finished" /\ final_result # None

\* the result was built by the remote-absent branch: advance and goodUI name
\* their primary source, pro leaves ai_analysis at its default
TookBranchB(result) ==
  IF "primary_source" \in DOMAIN result
    THEN result.primary_source \in {"Computer Vision Analysis", "Local Analysis"}
    ELSE result.ai_analysis = None

\* C21 as stated: the fusion takes Branch B if and only if the adapter
\* returned null
C21_Original ==
  Fused => (TookBranchB(final_result) <=> gemini_results = None)

\* C21: the fusion takes Branch B if and only if the adapter returned null
\* or an object with no keys; every verdict with a key goes through Branch A
C21_BranchSelection ==
  Fused =>
    (TookBranchB(final_result) <=>
       (gemini_results = None \/ gemini_results = EmptyDict))

\* the remote answer "{}" was parsed and the result is local
C21_Witness ==
  /\ Fused
  /\ RemoteSucceeded
  /\ gemini_results = EmptyDict
  /\ TookBranchB(final_result)

\* the prose the fallback can be given
ProseTexts == UNION {[1..n -> ProseWords] : n \in 0..MaxTextLen}

\* C22: any two response texts that the keyword fallback puts into the same
\* condition_category, by a keyword or by the default, get the same
\* confidence_score
C22_FixedConfidencePerCategory ==
  FallbackOnProse =>
    \A other \in ProseTexts :
      LET verdict == create_fallback_analysis(variant, other, EmptyDict)
      IN verdict.condition_category = gemini_results.condition_category =>
           verdict.confidence_score = gemini_results.confidence_score

\* the fusion went through Branch A with one of the six categories
RemoteCategoryFused ==
  /\ Fused
  /\ Truthy(gemini_results)
  /\ RemoteCategory \in Categories

\* how favourable a category is; the CONFLICTING state stands outside
Favour(key) ==
  CASE key = "EXCELLENT" -> 5
    [] key = "GOOD" -> 4
    [] key = "FAIR" -> 3
    [] key = "POOR" -> 2
    [] OTHER -> 1

\* C23: with a remote verdict present the local metrics change the fused
\* condition only from EXCELLENT or GOOD to CONFLICTING; a remote FAIR, POOR,
\* BAD or INSECT_DAMAGED yields the condition of that category for every
\* LocalMetrics, and the fused condition is never more favourable than the
\* remote's category
C23_NoUpgradeByLocal ==
  RemoteCategoryFused =>
    /\ RemoteCategory \in {"FAIR", "POOR", "BAD", "INSECT_DAMAGED"} =>
         Denoted(final_result.condition) = {KeyOfCategory(RemoteCategory)}
    /\ Denoted(final_result.condition) # {KeyOfCategory(RemoteCategory)} =>
         /\ RemoteCategory \in {"EXCELLENT", "GOOD"}
         /\ final_result.condition = ConflictLabel
    /\ \A key \in Denoted(final_result.condition) \ {"CONFLICTING"} :
         Favour(key) <= Favour(KeyOfCategory(RemoteCategory))

\* the remote says BAD of an image whose local metrics are spotless, and the
\* fused condition is BAD
C23_Witness ==
  /\ RemoteCategoryFused
  /\ RemoteCategory = "BAD"
  /\ Brown = 0 /\ Black = 0 /\ Freshness = 100
  /\ Denoted(final_result.condition) = {"BAD"}

\* the fusion went through Branch B
RemoteAbsentFused == Fused /\ ~Truthy(gemini_results)

\* the second metrics are no better than the first in any of the three
NoBetter(second, first) ==
  /\ second.brown_rot_percentage >= first.brown_rot_percentage
  /\ second.black_spots_percentage >= first.black_spots_percentage
  /\ second.freshness_score <= first.freshness_score

\* C24: with the remote verdict absent, metrics that are no better in brown
\* rot, black spots and freshness never give a more favourable condition in
\* the order EXCELLENT > GOOD > FAIR > POOR > BAD, and Branch B emits one of
\* these five, never INSECT_DAMAGED or CONFLICTING
C24_BranchBMonotone ==
  RemoteAbsentFused =>
    /\ Cardinality(Denoted(final_result.condition)) = 1
    /\ Denoted(final_result.condition)
         \subseteq {"EXCELLENT", "GOOD", "FAIR", "POOR", "BAD"}
    /\ \A second \in Images :
         NoBetter(second, local_results) =>
           \A key1 \in Denoted(final_result.condition),
              key2 \in Denoted(Fuse(variant, gemini_results, second).value.condition) :
             Favour(key2) <= Favour(key1)

\* a FAIR result of Branch B whose metrics can still get worse: more black
\* spots at the same freshness
C24_Witness ==
  /\ RemoteAbsentFused
  /\ Denoted(final_result.condition) = {"FAIR"}
  /\ \E second \in Images :
       /\ NoBetter(second, local_results)
       /\ second # local_results
       /\ Denoted(Fuse(variant, gemini_results, second).value.condition) = {"BAD"}

\* the remote call of an analysis is made for the image its local metrics
\* were computed from (an image cleared in between gives no verdict at all)
RemoteCallOnSameImage ==
  \A th \in BagToSet(threads) :
    ThreadRemoteStage(th) /\ ImageToSend(th) # None =>
      ImageToSend(th) = th.image

\* C25: the LocalMetrics and the remote verdict fused in one analysis are
\* computed from the same image, even if the current image is replaced or
\* cleared while the analysis thread is running
C25_OneImagePerAnalysis == [][RemoteCallOnSameImage]_vars

\* C26: in every reachable state of the window, after any interleaving of
\* load, capture, clear_image, analyze and thread completion, the analyze
\* button is enabled only if an image is loaded and no analysis is running
C26_AnalyzeButtonInvariant ==
  analyze_btn = "normal" => current_image_cv2 # None /\ NumRunning = 0

\* ------------------------------------------------------ the camera windows
MaxSessions == 2

\* the variables the camera windows do not use
nonCameraVars ==
  <<variant, analysis_result, pc, threadVars, pending, error_shown,
    callback_exceptions, callVars, threads, stale_published, load_error,
    compareVars>>

InitCamera ==
  /\ variant \in Variants
  /\ current_image_cv2 = None
  /\ analyze_btn = "disabled"
  /\ analysis_result = None
  /\ pc = "idle"
  /\ local_results = None
  /\ response = None
  /\ gemini_results = None
  /\ final_result = None
  /\ thread_exception = "none"
  /\ pending = {}
  /\ error_shown = FALSE
  /\ callback_exceptions = {}
  /\ call = None
  /\ returned = None
  /\ NoGui

\* the camera threads that have opened the capture device and not released it
Holders == {s \in DOMAIN camera_threads : camera_threads[s] \in {"test", "read"}}

\* capture_from_camera: a new window, the flag set, a new thread started;
\* nothing keeps the user from opening a window while another one is open
capture_from_camera ==
  /\ sessions < MaxSessions
  /\ sessions' = sessions + 1
  /\ camera_windows' = camera_windows \cup {sessions + 1}
  /\ camera_active' = TRUE
  /\ camera_threads' = Append(camera_threads, "open")
  /\ UNCHANGED <<current_frame, current_image_cv2, analyze_btn, nonCameraVars>>

\* on_closing / on_close of window w
on_closing(w) ==
  /\ w \in camera_windows
  /\ camera_active' = FALSE
  /\ camera_windows' = camera_windows \ {w}
  /\ UNCHANGED <<current_frame, sessions, camera_threads, current_image_cv2,
                 analyze_btn, nonCameraVars>>

\* the window a capture destroys: the closure's own window in advance and
\* goodUI, self.camera_window, the window opened last, in pro
WindowToDestroy(w) == IF variant = "pro" THEN sessions ELSE w

\* capture_image / capture_camera_image from the button or the keys of
\* window w: nothing happens while the attribute current_frame does not exist
capture_image(w) ==
  /\ w \in camera_windows
  /\ IF current_frame # None
       THEN /\ current_image_cv2' = current_frame
            /\ camera_active' = FALSE
            /\ camera_windows' = camera_windows \ {WindowToDestroy(w)}
            /\ analyze_btn' = "normal"
       ELSE UNCHANGED <<current_image_cv2, camera_active, camera_windows,
                        analyze_btn>>
  /\ UNCHANGED <<current_frame, sessions, camera_threads, nonCameraVars>>

\* the thread of window s opens the device: cv2.VideoCapture(0) may fail (no
\* camera, or a device another thread holds that the backend does not
\* share); advance and goodUI then destroy the window, pro just returns
camera_loop_open(s) ==
  /\ s \in DOMAIN camera_threads
  /\ camera_threads[s] = "open"
  /\ \E isOpened \in BOOLEAN :
       IF isOpened
         THEN /\ camera_threads' = [camera_threads EXCEPT ![s] = "test"]
              /\ UNCHANGED camera_windows
         ELSE /\ camera_threads' = [camera_threads EXCEPT ![s] = "failed"]
              /\ camera_windows' =
                   IF variant = "pro" THEN camera_windows
                                      ELSE camera_windows \ {s}
  /\ UNCHANGED <<camera_active, current_frame, sessions, current_image_cv2,
                 analyze_btn, nonCameraVars>>

\* while self.camera_active: ... ; cap.release() after the loop
camera_loop_test(s) ==
  /\ s \in DOMAIN camera_threads
  /\ camera_threads[s] = "test"
  /\ camera_threads' =
       [camera_threads EXCEPT ![s] = IF camera_active THEN "read"
                                                      ELSE "released"]
  /\ UNCHANGED <<camera_active, current_frame, camera_windows, sessions,
                 current_image_cv2, analyze_btn, nonCameraVars>>

\* ret, frame = cap.read(); a frame that was read is stored in
\* self.current_frame; the frame is known by the thread that read it and by
\* the camera session during which it was read
camera_loop_read(s) ==
  /\ s \in DOMAIN camera_threads
  /\ camera_threads[s] = "read"
  /\ camera_threads' = [camera_threads EXCEPT ![s] = "test"]
  /\ \E ret \in BOOLEAN :
       current_frame' = IF ret THEN [thread |-> s, during |-> sessions]
                               ELSE current_frame
  /\ UNCHANGED <<camera_active, camera_windows, sessions, current_image_cv2,
                 analyze_btn, nonCameraVars>>

\* one step of the thread of window s
camera_loop(s) ==
  \/ camera_loop_open(s)
  \/ camera_loop_test(s)
  \/ camera_loop_read(s)

NextCamera ==
  \/ capture_from_camera
  \/ \E w \in 1..MaxSessions : on_closing(w)
  \/ \E w \in 1..MaxSessions : capture_image(w)
  \/ \E s \in 1..MaxSessions : camera_loop_open(s)
  \/ \E s \in 1..MaxSessions : camera_loop_test(s)
  \/ \E s \in 1..MaxSessions : camera_loop_read(s)

SpecCamera == InitCamera /\ [][NextCamera]_vars

\* the camera threads are daemon threads the interpreter keeps scheduling;
\* nothing makes the user act
SpecCameraFair ==
  SpecCamera /\ \A s \in 1..MaxSessions : WF_vars(camera_loop(s))

\* window s was opened and is closed again: by on_closing or by a capture
WindowClosed(s) == s \in DOMAIN camera_threads /\ s \notin camera_windows

\* the thread of window s has left its loop and holds no device
LeftLoop(s) ==
  s \in DOMAIN camera_threads /\ camera_threads[s] \in {"released", "failed"}

\* C27: after a camera window is closed or an image is captured, the camera
\* thread started for that window eventually leaves its loop and releases
\* the capture device, even if a new camera window is opened afterwards, and
\* at most one camera thread holds the device at a time
C27_CameraWorkerShutdown ==
  /\ [](Cardinality(Holders) <= 1)
  /\ \A s \in 1..MaxSessions : WindowClosed(s) ~> LeftLoop(s)

\* C28: the image a camera capture stores as the current image is a frame
\* read during the camera session of the window the capture is made in, never
\* a frame left over from an earlier session, and a capture before any frame
\* was read has no effect
C28_CapturedFrameFresh ==
  [][\A w \in camera_windows :
       capture_image(w) =>
         IF current_frame = None
           THEN UNCHANGED <<current_image_cv2, camera_active, camera_windows>>
           ELSE current_image_cv2'.during >= w]_vars

\* C29: export_data of advance completes without error for every result the
\* fusion step can produce, those of the remote-absent path (gemini_analysis
\* is null) included, and what it writes under 'analysis_result' is the
\* stored result, which it leaves as it was
C29_ExportWorksOnEveryResult ==
  variant = "advance" /\ call.op = "export" /\ returned # None =>
    /\ ~returned.raised
    /\ returned.value.analysis_result = call.result

\* ------------------------------------------------ the comparison mode of pro
\* the variables the comparison mode does not use
nonCompareVars ==
  <<variant, current_image_cv2, analyze_btn, analysis_result, pc, threadVars,
    pending, error_shown, callback_exceptions, callVars, stale_published,
    load_error, cameraVars>>

InitCompare ==
  /\ variant = "pro"
  /\ current_image_cv2 = None
  /\ analyze_btn = "disabled"
  /\ analysis_result = None
  /\ pc = "idle"
  /\ local_results = None
  /\ response = None
  /\ gemini_results = None
  /\ final_result = None
  /\ thread_exception = "none"
  /\ pending = {}
  /\ error_shown = FALSE
  /\ callback_exceptions = {}
  /\ call = None
  /\ returned = None
  /\ NoGui

\* check_comparison_ready: the button follows the truth value of the two
\* results, and an AnalysisResult is always true
check_comparison_ready(results) ==
  IF results["before"] # None /\ results["after"] # None
    THEN "normal"
    ELSE "disabled"

\* load_comparison_image with a readable file: the image of the slot is
\* replaced, the result of the slot stays, the button is set again
load_comparison_image(position) ==
  /\ \E image \in GuiImages :
       comparison_images' = [comparison_images EXCEPT ![position] = image]
  /\ compare_btn' = check_comparison_ready(comparison_results)
  /\ UNCHANGED <<comparison_results, comparison_report, threads,
                 nonCompareVars>>

\* analyze_comparison_image: a thread is started if the slot has an image
analyze_comparison_image(position) ==
  /\ comparison_images[position] # None
  /\ BagCardinality(threads) < MaxAnalyses
  /\ threads' = threads (+) SetToBag({[position |-> position, pc |-> "read",
                                       image |-> None]})
  /\ UNCHANGED <<compareVars, nonCompareVars>>

\* analyze_thread evaluates self.comparison_images[position], the argument
\* of perform_fruit_analysis
analyze_thread_read(th) ==
  /\ th.pc = "read"
  /\ threads' = (threads (-) SetToBag({th}))
                  (+) SetToBag({[th EXCEPT
                                   !.pc = "store",
                                   !.image = comparison_images[th.position]]})
  /\ UNCHANGED <<compareVars, nonCompareVars>>

\* perform_fruit_analysis returns and the result is stored in the slot, with
\* the image it was computed from (which the program does not record); the
\* two callbacks are scheduled; an exception ends in a notification
analyze_thread_store(th) ==
  /\ th.pc = "store"
  /\ \E resp \in GuiResponses :
       LET out == Fuse("pro", analyze_with_gemini("pro", resp).value,
                       perform_local_analysis(th.image))
       IN IF out.raised
            THEN /\ threads' = threads (-) SetToBag({th})
                 /\ UNCHANGED comparison_results
            ELSE /\ comparison_results' =
                      [comparison_results EXCEPT
                         ![th.position] = [result |-> out.value,
                                           image |-> th.image]]
                 /\ threads' = (threads (-) SetToBag({th}))
                                 (+) SetToBag({[th EXCEPT !.pc = "callback"]})
  /\ UNCHANGED <<comparison_images, compare_btn, comparison_report,
                 nonCompareVars>>

\* the scheduled display_comparison_result and check_comparison_ready
analyze_thread_callback(th) ==
  /\ th.pc = "callback"
  /\ threads' = threads (-) SetToBag({th})
  /\ compare_btn' = check_comparison_ready(comparison_results)
  /\ UNCHANGED <<comparison_images, comparison_results, comparison_report,
                 nonCompareVars>>

\* perform_comparison, the command of the compare button: it reports on the
\* two results (of which the conditions are kept here) if both are there and
\* warns otherwise
perform_comparison ==
  /\ compare_btn = "normal"
  /\ comparison_report' =
       IF comparison_results["before"] # None /\ comparison_results["after"] # None
         THEN [before |-> comparison_results["before"].result.condition,
               after |-> comparison_results["after"].result.condition]
         ELSE comparison_report
  /\ UNCHANGED <<comparison_images, comparison_results, compare_btn, threads,
                 nonCompareVars>>

NextCompare ==
  \/ \E position \in Slots : load_comparison_image(position)
  \/ \E position \in Slots : analyze_comparison_image(position)
  \/ \E th \in BagToSet(threads) : analyze_thread_read(th)
  \/ \E th \in BagToSet(threads) : analyze_thread_store(th)
  \/ \E th \in BagToSet(threads) : analyze_thread_callback(th)
  \/ perform_comparison

SpecCompare == InitCompare /\ [][NextCompare]_vars

\* each slot holds a result computed from the image the slot holds now
BothCurrent ==
  \A position \in Slots :
    /\ comparison_results[position] # None
    /\ comparison_results[position].image = comparison_images[position]

\* C30: in comparison mode the compare button is enabled, and
\* perform_comparison runs, only when both the before and the after slot hold
\* a result computed from the image currently loaded in that slot, under any
\* interleaving of the loads, the analyses and their threads
C30_ComparisonReadiness ==
  /\ [](compare_btn = "normal" => BothCurrent)
  /\ [][perform_comparison => BothCurrent]_vars

====
